---- MODULE Spec2Model ----
(***************************************************************************)
(* A model of the keiba-auto-gist-updater scripts.                         *)
(*                                                                         *)
(* The repository is a set of stand-alone batch scripts.  The only real    *)
(* state machine is the weekly ledger (scripts/weekly_tracker.py); it is   *)
(* the specification Spec.  The scoring / selection / allocation /         *)
(* reconciliation functions are pure: each group has a specification of    *)
(* its own (SpecRace, SpecSelect, SpecInvest, SpecReconcile) whose Init    *)
(* draws the function's inputs from bounded sets and whose actions apply   *)
(* the functions.  The variables of the groups a specification does not    *)
(* use stay at their idle values.                                          *)
(*                                                                         *)
(* Conventions                                                             *)
(*  - Yen amounts and scores are integers.                                 *)
(*  - The volatility labels 低 / 中 / 高 / 不明 are written "low", "mid",  *)
(*    "high", "unknown"; the marks ◎ ○ ▲ △ are "honmei", "taikou",         *)
(*    "tanana", "aite".                                                    *)
(*  - Python float comparisons of a quotient with a constant are written   *)
(*    as the cross-multiplied integer comparison (a/b < 0.30 with b > 0    *)
(*    is 100*a < 30*b), which agrees with the float result on every input  *)
(*    of the bounded sets used here.                                       *)
(***************************************************************************)
EXTENDS Integers, Sequences, FiniteSets, TLC

VARIABLES
    \* ---- weekly ledger (weekly_tracker.py) ----
    data,         \* WeeklyTracker.data
    trackerFile,  \* content of weekly_tracker.json ("absent" before the first save)
    lastOp,       \* the method of WeeklyTracker called last
    ret,          \* what that call returned ("none" for the methods returning nothing)
    halted        \* history: check_alert has returned critical since the last initialize_week

VARIABLES
    \* ---- one race: volatility and betting plan (select_predictions.py) ----
    race,         \* the race handed to the functions: its list of horses
    turbulence,   \* what calculate_turbulence(race) returned ("none" before the call)
    betting_plan  \* what generate_betting_plan(race) returned (NoPlan before the call)

VARIABLES
    \* ---- race selection (select_predictions.py, generate_final_output.py) ----
    race_data,       \* race_data["races"], the input of select_predictions.select_races
    predictions,     \* data["predictions"], the input of generate_final_output.select_races
    selected_races,  \* what select_predictions.select_races returned
    final_selected,  \* what generate_final_output.select_races returned
    selectCalls      \* which of the two selectors have been called

VARIABLES
    \* ---- stake allocation (select_predictions.py, calculate_investment.py) ----
    alloc_races,      \* the races handed to the allocators
    budget,           \* total_budget / daily_budget
    investment_plan,  \* what select_predictions.calculate_investment returned
    investments,      \* what calculate_investment.calculate_race_investments returned
    investCalls       \* which of the two allocators have been called

VARIABLES
    \* ---- reconciliation (fetch_race_results.py, generate_results_summary.py) ----
    prediction,    \* one selected race of the predictions file: its axis and its stake
    official,      \* the official result of that race: finishing order and payout
    result_entry,  \* the entry fetch_race_results appends to results for the race
    summary_item,  \* the item generate_summary appends to details for the race
    file_item,     \* the same item when the result is the entry read from race_results_{ymd}.json
    reconCalls     \* which of the two reconcilers have run

VARIABLES
    \* ---- horse scoring (calculate_des.py, calculate_des_score.py, add_pace_info.py,
    \*      generate_reports.py) ----
    horse,          \* the horse handed to calculate_des_score
    des_score,      \* what calculate_des.calculate_des_score returned (NoDes before the call)
    des_score_v1,   \* what calculate_des_score.calculate_des_score returned
    past_races,     \* the past-race list handed to estimate_running_style
    running_style,  \* what estimate_running_style returned for the list it was called on
    list_changes,   \* how the list was changed since: "reordered", "older"
    pace_horses,    \* the horses handed to the pace classifiers
    predicted_pace, \* what add_pace_info.analyze_pace_from_horses returned
    report_pace,    \* what generate_reports.RaceAnalyzer.analyze_pace returned
    ns_horse,       \* the horse handed to calculate_new_score
    new_score,      \* what calculate_new_score returned (NoNewScore before the call)
    des_bak,        \* race_data_{ymd}.json.des_bak, the copy calculate_des.main makes
    des_file        \* the races of race_data_{ymd}.json

VARIABLES
    \* ---- fetch loops (fetch_race_results.py, fetch_past_races.py) ----
    batch_script,   \* the script whose loop runs
    batch_races,    \* the races of the loop, each with the fate of its HTTP request
    batch_idx,      \* the number of races the loop has finished
    batch_out,      \* results (fetch_race_results) or the races' horses (fetch_past_races)
    http_log,       \* the races an HTTP GET was issued for, in order
    sleeps,         \* the number of time.sleep(1) calls made
    batch_file      \* the file the script writes at its end, and its exit code

VARIABLES
    \* ---- stage scripts and their files ----
    fs,             \* the files of the working directory
    pc,             \* where each stage script is in its main()
    local,          \* the race data each script holds in memory
    exit_code,      \* the exit code of each script that has ended
    discovery       \* the date and the listings daily_select was run on

ledgerVars == <<data, trackerFile, lastOp, ret, halted>>
reconVars == <<prediction, official, result_entry, summary_item, file_item, reconCalls>>
investVars == <<alloc_races, budget, investment_plan, investments, investCalls>>
raceVars == <<race, turbulence, betting_plan>>
selectVars == <<race_data, predictions, selected_races, final_selected, selectCalls>>

desVars == <<horse, des_score, des_score_v1>>
styleVars == <<past_races, running_style, list_changes>>
paceVars == <<pace_horses, predicted_pace, report_pace>>
newScoreVars == <<ns_horse, new_score>>
desMainVars == <<des_bak, des_file>>
scoreVars == <<desVars, styleVars, paceVars, newScoreVars, desMainVars>>
batchVars == <<batch_script, batch_races, batch_idx, batch_out, http_log, sleeps,
               batch_file>>
stageVars == <<fs, pc, local, exit_code, discovery>>

\* The groups of the pure functions and of the ledger.
coreVars == <<ledgerVars, raceVars, selectVars, investVars, reconVars>>

vars == <<coreVars, scoreVars, batchVars, stageVars>>

(***************************************************************************)
(* Generic helpers                                                         *)
(***************************************************************************)
RECURSIVE SumSeq(_)
SumSeq(s) == IF s = <<>> THEN 0 ELSE Head(s) + SumSeq(Tail(s))

Min2(a, b) == IF a <= b THEN a ELSE b
Max2(a, b) == IF a >= b THEN a ELSE b

\* All sequences over S of length 0..n.
SeqsUpTo(S, n) == UNION {[1..k -> S] : k \in 0..n}

\* s[:k] and s[k:] of Python.
Take(s, k) == SubSeq(s, 1, Min2(k, Len(s)))
Drop(s, k) == SubSeq(s, Min2(k, Len(s)) + 1, Len(s))

\* Python's sorted(..., reverse=True) / list.sort(reverse=True) on integer
\* keys: the indices 1..Len(keys) in descending key order, equal keys in
\* their original order (the sort is stable).
RECURSIVE InsertDesc(_, _, _)
InsertDesc(sorted, i, keys) ==
    IF sorted = <<>> THEN <<i>>
    ELSE IF keys[Head(sorted)] >= keys[i]
         THEN <<Head(sorted)>> \o InsertDesc(Tail(sorted), i, keys)
         ELSE <<i>> \o sorted

RECURSIVE OrderDescUpTo(_, _)
OrderDescUpTo(keys, n) ==
    IF n = 0 THEN <<>> ELSE InsertDesc(OrderDescUpTo(keys, n - 1), n, keys)

OrderDesc(keys) == OrderDescUpTo(keys, Len(keys))

\* seq rearranged by an index order.
Permute(seq, order) == [i \in 1..Len(order) |-> seq[order[i]]]

(***************************************************************************)
(* Weekly ledger: scripts/weekly_tracker.py                                *)
(***************************************************************************)
\* Bound: the number of daily records added within one week of the model.
MaxRecords == 4

\* Inputs of the model: budgets passed to initialize_week and the amounts
\* passed to add_daily_record (the values of the module's own test run, plus
\* 10000 and 7000 so that a balance of exactly 0 and of exactly 30% occur).
Budgets == {10000, 30000}
InvestedAmounts == {0, 7000, 9600}
ReturnAmounts == {0, 5400}

ALERT_LEVEL_OK == "ok"
ALERT_LEVEL_WARNING == "warning"
ALERT_LEVEL_CRITICAL == "critical"

\* WARNING_THRESHOLD = 0.30 and CRITICAL_THRESHOLD = 0.00, in percent.
WARNING_THRESHOLD == 30
CRITICAL_THRESHOLD == 0

\* get_investment_ratio's return values 1.0 / 0.5 / 0.0, in percent.
RATIO_NORMAL == 100
RATIO_REDUCED == 50
RATIO_STOP == 0

\* _load_data when weekly_tracker.json does not exist.
EmptyLedger ==
    [initial_budget |-> 0, invested |-> 0, returns |-> 0, balance |-> 0,
     daily_records |-> <<>>]

\* The dict initialize_week assigns to self.data.
NewWeek(initial_budget) ==
    [initial_budget |-> initial_budget, invested |-> 0, returns |-> 0,
     balance |-> initial_budget, daily_records |-> <<>>]

\* add_daily_record with the balance derived from the previous balance and the
\* day's stake only (the day's payout is forgotten).
AddRecord_NoReturns(d, invested, returns) ==
    LET inv == d.invested + invested
        rtn == d.returns + returns
        bal == d.balance - invested
    IN  [d EXCEPT !.invested = inv,
                  !.returns = rtn,
                  !.balance = bal,
                  !.daily_records = Append(@, [invested |-> invested,
                                               returns |-> returns,
                                               profit |-> returns - invested,
                                               balance |-> bal])]

\* add_daily_record: the cumulative update followed by the appended record.
\* (date and race_count are copied into the record and read by nothing.)
AddRecord(d, invested, returns) ==
    LET inv == d.invested + invested
        rtn == d.returns + returns
        bal == d.initial_budget - inv + rtn
    IN  [d EXCEPT !.invested = inv,
                  !.returns = rtn,
                  !.balance = bal,
                  !.daily_records = Append(@, [invested |-> invested,
                                               returns |-> returns,
                                               profit |-> returns - invested,
                                               balance |-> bal])]

\* balance / initial_budget < pct / 100  (Python true division, initial_budget # 0)
RatioBelow(balance, initial_budget, pct) ==
    IF initial_budget > 0
    THEN 100 * balance < pct * initial_budget
    ELSE 100 * balance > pct * initial_budget

\* check_alert with the warning test placed before the critical test.
check_alert_WarningFirst(d) ==
    IF d.initial_budget = 0 THEN ALERT_LEVEL_OK
    ELSE IF RatioBelow(d.balance, d.initial_budget, WARNING_THRESHOLD)
         THEN ALERT_LEVEL_WARNING
    ELSE IF RatioBelow(d.balance, d.initial_budget, CRITICAL_THRESHOLD)
         THEN ALERT_LEVEL_CRITICAL
    ELSE ALERT_LEVEL_OK

\* check_alert: the level of the returned pair.
check_alert(d) ==
    IF d.initial_budget = 0 THEN ALERT_LEVEL_OK
    ELSE IF RatioBelow(d.balance, d.initial_budget, CRITICAL_THRESHOLD)
         THEN ALERT_LEVEL_CRITICAL
    ELSE IF RatioBelow(d.balance, d.initial_budget, WARNING_THRESHOLD)
         THEN ALERT_LEVEL_WARNING
    ELSE ALERT_LEVEL_OK

\* get_investment_ratio
get_investment_ratio(d) ==
    LET alert_level == check_alert(d)
    IN  IF alert_level = ALERT_LEVEL_CRITICAL THEN RATIO_STOP
        ELSE IF alert_level = ALERT_LEVEL_WARNING THEN RATIO_REDUCED
        ELSE RATIO_NORMAL

\* The value of a variable that holds a betting plan before any plan is made
\* (a plan the code returns has 組み合わせ数 = 1).
NoPlan == [axis |-> <<>>, aite |-> <<>>, combinations |-> 0]

\* The values of the variables of a group no specification step touches.
IdleLedger ==
    /\ data = EmptyLedger
    /\ trackerFile = "absent"
    /\ lastOp = "construct"
    /\ ret = "none"
    /\ halted = FALSE

IdleRace ==
    /\ race = <<>>
    /\ turbulence = "none"
    /\ betting_plan = NoPlan

IdleSelect ==
    /\ race_data = <<>>
    /\ predictions = <<>>
    /\ selected_races = <<>>
    /\ final_selected = <<>>
    /\ selectCalls = {}

\* The value of the variables that hold an allocation before any is made.
NoInvestmentPlan ==
    [total_investment |-> 0, low_investment |-> 0, mid_investment |-> 0, races |-> <<>>]
NoInvestments == [status |-> "none", amounts |-> <<>>]

IdleInvest ==
    /\ alloc_races = <<>>
    /\ budget = 0
    /\ investment_plan = NoInvestmentPlan
    /\ investments = NoInvestments
    /\ investCalls = {}

\* The values of the reconciliation variables before a reconciler has run.
NoPrediction == [axis |-> <<>>, has_investment |-> FALSE, investment |-> 0]
NoOfficial == [available |-> FALSE, top_3 |-> <<>>, payout |-> 0]
NoEntry == [status |-> "none", predicted |-> <<>>, actual |-> <<>>, hit |-> FALSE,
            investment |-> 0, return |-> 0, profit |-> 0]
NoItem == [reason |-> "none", hit |-> FALSE, investment |-> 0, payout |-> 0, profit |-> 0]

IdleRecon ==
    /\ prediction = NoPrediction
    /\ official = NoOfficial
    /\ result_entry = NoEntry
    /\ summary_item = NoItem
    /\ file_item = NoItem
    /\ reconCalls = {}

\* The values of the scoring variables before a scoring function is called.
NoHorse == [past_races |-> <<>>, jockey |-> "", waku |-> 0, trainer |-> ""]
NoDes == [A |-> 0, B |-> 0, C |-> 0, D |-> 0, total |-> 0, confidence |-> "none"]

\* calculate_new_score is not called.
NoNewHorse == [popularity |-> 0, past_races |-> <<>>, C |-> 0, B |-> 0, leg_type |-> "none"]
NoNewScore == [popularity |-> 0, weight |-> 0, experience |-> 0, jockey_stable |-> 0,
               aptitude |-> 0, leg |-> 0, total |-> -1]

IdleNewScore == ns_horse = NoNewHorse /\ new_score = NoNewScore

\* calculate_des.main is not run.
NoBackup == [exists |-> FALSE, races |-> <<>>]

IdleDesMain == des_bak = NoBackup /\ des_file = <<>>

IdleScore ==
    /\ IdleNewScore
    /\ IdleDesMain
    /\ horse = NoHorse
    /\ des_score = NoDes
    /\ des_score_v1 = NoDes
    /\ past_races = <<>>
    /\ running_style = "none"
    /\ list_changes = {}
    /\ pace_horses = <<>>
    /\ predicted_pace = "none"
    /\ report_pace = "none"

\* The script has not ended and has written nothing.
NoSummary ==
    [total_races |-> 0, hit_count |-> 0, miss_count |-> 0, unavailable_count |-> 0,
     total_investment |-> 0, total_return |-> 0, total_profit |-> 0,
     hit_rate |-> 0, recovery_rate |-> 0]
NoBatchFile == [written |-> FALSE, content |-> <<>>, summary |-> NoSummary, exit_code |-> -1]

\* No fetch loop is running.
IdleBatch ==
    /\ batch_file = NoBatchFile
    /\ batch_script = "none"
    /\ batch_races = <<>>
    /\ batch_idx = 0
    /\ batch_out = <<>>
    /\ http_log = <<>>
    /\ sleeps = 0

\* No stage script is run and no file is looked at.
NoDiscovery == [ymd |-> 0, jra |-> <<>>, nar |-> <<>>]

IdleStage ==
    /\ fs = <<>>
    /\ pc = <<>>
    /\ local = <<>>
    /\ exit_code = <<>>
    /\ discovery = NoDiscovery

InitLedger ==
    /\ data = EmptyLedger
    /\ trackerFile = "absent"
    /\ lastOp = "construct"
    /\ ret = "none"
    /\ halted = FALSE

InitializeWeek ==
    \E b \in Budgets :
        /\ data' = NewWeek(b)
        /\ trackerFile' = data'
        /\ lastOp' = "initialize_week"
        /\ ret' = "none"
        /\ halted' = FALSE
        /\ UNCHANGED <<raceVars, selectVars, investVars, reconVars,
                   scoreVars, batchVars, stageVars>>

AddDailyRecord ==
    /\ Len(data.daily_records) < MaxRecords
    /\ \E invested \in InvestedAmounts, returns \in ReturnAmounts :
        /\ data' = AddRecord(data, invested, returns)
        /\ trackerFile' = data'
        /\ lastOp' = "add_daily_record"
        /\ ret' = "none"
        /\ UNCHANGED <<halted, raceVars, selectVars, investVars, reconVars,
                   scoreVars, batchVars, stageVars>>

CheckAlert ==
    /\ lastOp' = "check_alert"
    /\ ret' = check_alert(data)
    /\ halted' = (halted \/ check_alert(data) = ALERT_LEVEL_CRITICAL)
    /\ UNCHANGED <<data, trackerFile, raceVars, selectVars, investVars, reconVars,
                   scoreVars, batchVars, stageVars>>

GetInvestmentRatio ==
    /\ lastOp' = "get_investment_ratio"
    /\ ret' = get_investment_ratio(data)
    /\ halted' = (halted \/ check_alert(data) = ALERT_LEVEL_CRITICAL)
    /\ UNCHANGED <<data, trackerFile, raceVars, selectVars, investVars, reconVars,
                   scoreVars, batchVars, stageVars>>

Init ==
    InitLedger /\ IdleRace /\ IdleSelect /\ IdleInvest /\ IdleRecon
        /\ IdleScore /\ IdleBatch /\ IdleStage

Next ==
    \/ InitializeWeek
    \/ AddDailyRecord
    \/ CheckAlert
    \/ GetInvestmentRatio

Spec == Init /\ [][Next]_vars

(***************************************************************************)
(* Claims about the weekly ledger (checked under Spec)                     *)
(***************************************************************************)
RecordInvested(records) == [i \in 1..Len(records) |-> records[i].invested]
RecordReturns(records) == [i \in 1..Len(records) |-> records[i].returns]

\* C1: at every point of a week the ledger satisfies
\* balance = initial_budget - invested + returns, invested and returns are the
\* sums of the amounts of the recorded daily entries, and the balance stored
\* in the most recent daily record is the ledger balance.
C1_LedgerBalance ==
    /\ data.balance = data.initial_budget - data.invested + data.returns
    /\ data.invested = SumSeq(RecordInvested(data.daily_records))
    /\ data.returns = SumSeq(RecordReturns(data.daily_records))
    /\ data.daily_records # <<>> =>
           data.daily_records[Len(data.daily_records)].balance = data.balance

\* A week with several records, money staked and money returned.
C1_Witness ==
    /\ lastOp = "add_daily_record"
    /\ data.initial_budget = 30000
    /\ Len(data.daily_records) >= 3
    /\ data.invested > 0
    /\ data.returns > 0

\* The level and the staking ratio the claim gives for a ledger.
ClaimedLevel(d) ==
    IF d.balance < 0 THEN "critical"
    ELSE IF 10 * d.balance < 3 * d.initial_budget THEN "warning"
    ELSE "ok"

ClaimedRatio(d) ==
    IF d.balance < 0 THEN 0
    ELSE IF 10 * d.balance < 3 * d.initial_budget THEN 50
    ELSE 100

\* The ledger of the example: initial_budget 30000 and four records 9600 / 0.
FourLosingDays(d) ==
    /\ d.initial_budget = 30000
    /\ Len(d.daily_records) = 4
    /\ \A i \in 1..4 : /\ d.daily_records[i].invested = 9600
                        /\ d.daily_records[i].returns = 0

C3_HaltedForTheWeek ==
    (halted /\ lastOp = "get_investment_ratio") => ret = RATIO_STOP

(***************************************************************************)
(* One race: scripts/select_predictions.py, calculate_turbulence and       *)
(* generate_betting_plan                                                   *)
(*                                                                         *)
(* A horse is [umaban, total, past]: its number 馬番, its des_score.total  *)
(* (the code reads 0 when the score is missing) and the length of its      *)
(* past_races list.                                                        *)
(***************************************************************************)
\* Bounds: fields of up to MaxScored horses take every score of ScoreValues;
\* longer fields, up to MaxField horses, take the scores of LongFieldScores.
MaxScored == 4
MaxField == 11

ScoreValues == {40, 50, 55, 70, 85}
LongFieldScores == {55, 70}

\* The horses of a race card whose i-th horse has number i and score scores[i].
MakeHorses(scores, past) ==
    [i \in 1..Len(scores) |-> [umaban |-> i, total |-> scores[i], past |-> past]]

RaceInputs ==
    {MakeHorses(sc, 1) : sc \in SeqsUpTo(ScoreValues, MaxScored)}
    \cup {MakeHorses(sc, 1) :
             sc \in UNION {[1..k -> LongFieldScores] : k \in (MaxScored + 1)..MaxField}}

Totals(horses) == [i \in 1..Len(horses) |-> horses[i].total]

\* scores.sort(reverse=True)
SortedScores(horses) == Permute(Totals(horses), OrderDesc(Totals(horses)))

\* top_3_avg >= t, where top_3_avg = sum(scores[:3]) / 3 for three or more
\* scores and sum(scores) / len(scores) otherwise (scores sorted descending,
\* not empty).
Top3AvgAtLeast(scores, t) ==
    IF Len(scores) >= 3
    THEN SumSeq(Take(scores, 3)) >= 3 * t
    ELSE SumSeq(scores) >= Len(scores) * t

\* score_diff
ScoreDiff(scores) == IF Len(scores) >= 3 THEN scores[1] - scores[3] ELSE 0

\* The thresholds of the volatility rule.
LOW_AVG == 70
LOW_DIFF == 15
MID_AVG == 60
MID_DIFF == 10

\* calculate_turbulence with "or" in place of "and" in the test for low.
calculate_turbulence_LowOr(horses) ==
    IF horses = <<>> THEN "mid"
    ELSE LET scores == SortedScores(horses)
         IN  IF Top3AvgAtLeast(scores, LOW_AVG) \/ ScoreDiff(scores) >= LOW_DIFF
             THEN "low"
             ELSE IF Top3AvgAtLeast(scores, MID_AVG) \/ ScoreDiff(scores) >= MID_DIFF
             THEN "mid"
             ELSE "high"

\* calculate_turbulence
calculate_turbulence(horses) ==
    IF horses = <<>> THEN "mid"
    ELSE LET scores == SortedScores(horses)
         IN  IF Top3AvgAtLeast(scores, LOW_AVG) /\ ScoreDiff(scores) >= LOW_DIFF
             THEN "low"
             ELSE IF Top3AvgAtLeast(scores, MID_AVG) \/ ScoreDiff(scores) >= MID_DIFF
             THEN "mid"
             ELSE "high"

\* ["◎", "○", "▲"]
AxisMarks == <<"honmei", "taikou", "tanana">>

\* The number of top horses kept (top_10) and the number of axis horses.
TOP_N == 10
AXIS_N == 3

\* sorted(horses, key=total, reverse=True)
SortedHorses(horses) == Permute(horses, OrderDesc(Totals(horses)))

AxisEntry(h, i) == [umaban |-> h.umaban, mark |-> AxisMarks[i], score |-> h.total]
OpponentEntry(h) == [umaban |-> h.umaban, mark |-> "aite", score |-> h.total]

\* generate_betting_plan with the opponents taken from the whole sorted field
\* (sorted_horses[3:]) instead of from the top ten.
generate_betting_plan_AllOpponents(horses) ==
    LET sorted_horses == SortedHorses(horses)
        top_10 == Take(sorted_horses, Min2(TOP_N, Len(sorted_horses)))
        axis_horses == Take(top_10, AXIS_N)
        opponent_horses == Drop(sorted_horses, AXIS_N)
    IN  [axis |-> [i \in 1..Len(axis_horses) |-> AxisEntry(axis_horses[i], i)],
         aite |-> [i \in 1..Len(opponent_horses) |-> OpponentEntry(opponent_horses[i])],
         combinations |-> 1]

\* generate_betting_plan: the keys 軸, 相手 and 組み合わせ数 of the returned
\* dict (買い目タイプ is a constant string).
generate_betting_plan(horses) ==
    LET sorted_horses == SortedHorses(horses)
        top_10 == Take(sorted_horses, Min2(TOP_N, Len(sorted_horses)))
        axis_horses == Take(top_10, AXIS_N)
        opponent_horses == Take(Drop(top_10, AXIS_N), TOP_N - AXIS_N)
    IN  [axis |-> [i \in 1..Len(axis_horses) |-> AxisEntry(axis_horses[i], i)],
         aite |-> [i \in 1..Len(opponent_horses) |-> OpponentEntry(opponent_horses[i])],
         combinations |-> 1]

InitRace ==
    /\ race \in RaceInputs
    /\ turbulence = "none"
    /\ betting_plan = NoPlan

CalculateTurbulence ==
    /\ turbulence' = calculate_turbulence(race)
    /\ UNCHANGED <<race, betting_plan, ledgerVars, selectVars, investVars, reconVars,
                   scoreVars, batchVars, stageVars>>

GenerateBettingPlan ==
    /\ betting_plan' = generate_betting_plan(race)
    /\ UNCHANGED <<race, turbulence, ledgerVars, selectVars, investVars, reconVars,
                   scoreVars, batchVars, stageVars>>

NextRace ==
    \/ CalculateTurbulence
    \/ GenerateBettingPlan

\* One race under test, every other component at rest.
StartRace ==
    InitRace /\ IdleLedger /\ IdleSelect /\ IdleInvest /\ IdleRecon
        /\ IdleScore /\ IdleBatch /\ IdleStage

SpecRace == StartRace /\ [][NextRace]_vars

(***************************************************************************)
(* Claims about one race (checked under SpecRace)                          *)
(***************************************************************************)
\* The k-th largest total score of the field (k <= number of horses).
RankedScore(k) == SortedScores(race)[k]
Gap13 == RankedScore(1) - RankedScore(3)
Top3Sum == RankedScore(1) + RankedScore(2) + RankedScore(3)

\* C7 (as claimed): calculate_turbulence returns low whenever the gap between
\* the rank-1 and rank-3 total scores is at least 15, and never returns low
\* when the gap is at or below 10.
C7_LowByGapAlone ==
    (turbulence # "none" /\ Len(race) >= 3) =>
        /\ Gap13 >= 15 => turbulence = "low"
        /\ Gap13 <= 10 => turbulence # "low"

\* C7 (amended): calculate_turbulence returns low whenever the gap is at least
\* 15 and the average of the top three scores is at least 70, never returns
\* low when the gap is below 15 (so never at or below 10), and never for a
\* field of fewer than three horses.
C7_LowByGapAndAverage ==
    turbulence # "none" =>
        IF Len(race) >= 3
        THEN /\ (Gap13 >= 15 /\ Top3Sum >= 210) => turbulence = "low"
             /\ Gap13 < 15 => turbulence # "low"
             /\ Gap13 <= 10 => turbulence # "low"
        ELSE turbulence # "low"

\* A race classified low: a gap of 15 or more and a top-three average of 70.
C7_Witness ==
    /\ Len(race) >= 3
    /\ turbulence = "low"
    /\ Gap13 >= 15
    /\ Top3Sum >= 210

\* C9: every betting plan has exactly 3 axis horses, for every field size:
\* the horses ranked 1 to 3 by total score, marked ◎, ○, ▲ in that order.
\* (Stated for the races that have horses: select_races makes no plan for a
\* race without any.)
C9_ThreeAxisHorses ==
    (betting_plan # NoPlan /\ race # <<>>) =>
        /\ Len(betting_plan.axis) = 3
        /\ \A i \in 1..3 :
              /\ betting_plan.axis[i].mark = AxisMarks[i]
              /\ betting_plan.axis[i].score = RankedScore(i)

\* C10 (as claimed): the number of opponent horses is
\* floor(field_size/2) + 1 - 3, clamped to 0 when the field size is below 6.
C10_OpponentsHalfField ==
    betting_plan # NoPlan =>
        Len(betting_plan.aite) =
            (IF Len(race) < 6 THEN 0 ELSE (Len(race) \div 2) + 1 - 3)

\* C10 (amended): the number of opponent horses is min(field_size, 10) - 3,
\* clamped to 0 when the field size is below 3 (the horses ranked 4 to 10), so
\* it is never negative and never above 7.
C10_OpponentsRanks4To10 ==
    betting_plan # NoPlan =>
        /\ Len(betting_plan.aite) =
              (IF Len(race) < 3 THEN 0
               ELSE (IF Len(race) < 10 THEN Len(race) ELSE 10) - 3)
        /\ Len(betting_plan.aite) >= 0
        /\ Len(betting_plan.aite) <= 7
        /\ \A i \in 1..Len(betting_plan.aite) :
              betting_plan.aite[i].score = RankedScore(3 + i)

\* A plan for a field of more than ten horses.
C10_Witness ==
    /\ betting_plan # NoPlan
    /\ Len(race) > 10
    /\ Len(betting_plan.aite) = 7

(***************************************************************************)
(* Race selection: scripts/select_predictions.py select_races and          *)
(* scripts/generate_final_output.py select_races                           *)
(***************************************************************************)
\* Bound: the number of races (or predictions) of a day.
MaxRaces == 6

\* min_races and max_races of the selectors.
MIN_RACES == 3
MAX_RACES == 5

\* The race cards of the model: a low-volatility card (evaluation 75 + 2*4), a
\* medium card whose horses have no past races (60 + 0), a high-volatility
\* card with a large field (53.3 + 2*6, which outranks the medium card) and a
\* card without horses.
LowCard == MakeHorses(<<85, 70, 70, 40>>, 1)
MidCard == MakeHorses(<<70, 55, 55>>, 0)
HighCard == MakeHorses(<<55, 55, 50, 50, 50, 50>>, 1)
EmptyCard == <<>>
RaceCards == {LowCard, MidCard, HighCard, EmptyCard}

\* A day's races: the i-th race has race_id i.
MakeRaces(cards) == [i \in 1..Len(cards) |-> [race_id |-> i, horses |-> cards[i]]]
Days == {MakeRaces(cards) : cards \in SeqsUpTo(RaceCards, MaxRaces)}

\* data_quality: the number of horses with a non-empty past_races list.
DataQuality(horses) == Cardinality({i \in 1..Len(horses) : horses[i].past > 0})

\* 6 * evaluation_score, where evaluation_score = top_3_avg + data_quality * 2
\* and top_3_avg is sum(top 3)/3, or sum/len for fewer than three horses
\* (horses not empty).  The factor 6 keeps the quotient an integer.
Evaluation6(horses) ==
    LET sorted_scores == SortedScores(horses)
        n == Len(sorted_scores)
        avg6 == IF n >= 3 THEN 2 * SumSeq(Take(sorted_scores, 3))
                ELSE (6 \div n) * SumSeq(sorted_scores)
    IN  avg6 + 12 * DataQuality(horses)

\* race_scores: one item per race that has horses, in the order of the input.
RaceScores(races) ==
    LET scored == SelectSeq(races, LAMBDA r : r.horses # <<>>)
    IN  [i \in 1..Len(scored) |->
            [race |-> scored[i],
             evaluation6 |-> Evaluation6(scored[i].horses),
             data_quality |-> DataQuality(scored[i].horses)]]

\* race_scores.sort(key=evaluation_score, reverse=True)
SortedRaceScores(races) ==
    LET items == RaceScores(races)
    IN  Permute(items, OrderDesc([i \in 1..Len(items) |-> items[i].evaluation6]))

SelectedEntry(item) ==
    [race_id |-> item.race.race_id,
     turbulence |-> calculate_turbulence(item.race.horses),
     evaluation6 |-> item.evaluation6,
     data_quality |-> item.data_quality,
     betting_plan |-> generate_betting_plan(item.race.horses)]

\* select_predictions.select_races without the [:max_races] slice.
sp_select_races_NoCap(races, max_races) ==
    IF races = <<>> THEN <<>>
    ELSE LET top == SortedRaceScores(races)
         IN  [i \in 1..Len(top) |-> SelectedEntry(top[i])]

\* select_predictions.select_races(race_data, max_races)
sp_select_races(races, max_races) ==
    IF races = <<>> THEN <<>>
    ELSE LET top == Take(SortedRaceScores(races), max_races)
         IN  [i \in 1..Len(top) |-> SelectedEntry(top[i])]

\* The predictions of the model: [race_id, status, turbulence, honmei], honmei
\* being predictions.honmei.total_score; a prediction that is not complete
\* ("insufficient") carries the label unknown.
PredKinds ==
    {[status |-> "complete", turbulence |-> "low", honmei |-> 80],
     [status |-> "complete", turbulence |-> "mid", honmei |-> 70],
     [status |-> "complete", turbulence |-> "high", honmei |-> 55],
     [status |-> "insufficient", turbulence |-> "unknown", honmei |-> 0]}

MakePredictions(kinds) ==
    [i \in 1..Len(kinds) |->
        [race_id |-> i, status |-> kinds[i].status,
         turbulence |-> kinds[i].turbulence, honmei |-> kinds[i].honmei]]

PredictionLists == {MakePredictions(k) : k \in SeqsUpTo(PredKinds, MaxRaces)}

\* calculate_race_priority: the tuple (priority, honmei_score) as the integer
\* priority * 1000 + honmei_score (scores are below 1000).
calculate_race_priority(pred) ==
    IF pred.status # "complete" THEN 9 * 1000
    ELSE (CASE pred.turbulence = "low" -> 1
            [] pred.turbulence = "mid" -> 2
            [] pred.turbulence = "high" -> 3
            [] OTHER -> 9) * 1000 + pred.honmei

\* sorted(predictions, key=calculate_race_priority): ascending and stable.
SortedPredictions(preds) ==
    Permute(preds, OrderDesc([i \in 1..Len(preds) |-> 0 - calculate_race_priority(preds[i])]))

\* pred in selected
InSeq(x, seq) == \E i \in 1..Len(seq) : seq[i] = x

\* The first loop: every low or medium prediction, while len(selected) < max_races.
FirstPass(sorted_predictions, max_races) ==
    Take(SelectSeq(sorted_predictions, LAMBDA p : p.turbulence \in {"low", "mid"}),
         max_races)

\* The second loop: the high predictions not yet selected, appended until
\* len(selected) reaches min_races (and while it is below max_races).
RECURSIVE SecondPass(_, _, _, _)
SecondPass(rest, selected, min_races, max_races) ==
    IF rest = <<>> THEN selected
    ELSE LET pred == Head(rest)
         IN  IF /\ pred.turbulence = "high"
                /\ ~InSeq(pred, selected)
                /\ Len(selected) < max_races
             THEN LET more == Append(selected, pred)
                  IN  IF Len(more) >= min_races THEN more
                      ELSE SecondPass(Tail(rest), more, min_races, max_races)
             ELSE SecondPass(Tail(rest), selected, min_races, max_races)

\* generate_final_output.select_races with the second loop run at every call
\* (the test len(selected) < min_races dropped) and without its break.
RECURSIVE SecondPass_NoBreak(_, _, _)
SecondPass_NoBreak(rest, selected, max_races) ==
    IF rest = <<>> THEN selected
    ELSE LET pred == Head(rest)
         IN  IF pred.turbulence = "high" /\ Len(selected) < max_races
             THEN SecondPass_NoBreak(Tail(rest), Append(selected, pred), max_races)
             ELSE SecondPass_NoBreak(Tail(rest), selected, max_races)

gfo_select_races_AlwaysFallBack(preds, min_races, max_races) ==
    LET sorted_predictions == SortedPredictions(preds)
    IN  SecondPass_NoBreak(sorted_predictions,
                           FirstPass(sorted_predictions, max_races), max_races)

\* generate_final_output.select_races(predictions, min_races, max_races)
gfo_select_races(preds, min_races, max_races) ==
    LET sorted_predictions == SortedPredictions(preds)
        selected == FirstPass(sorted_predictions, max_races)
    IN  IF Len(selected) < min_races
        THEN SecondPass(sorted_predictions, selected, min_races, max_races)
        ELSE selected

InitSelect ==
    /\ \/ race_data \in Days /\ predictions = <<>>
       \/ race_data = <<>> /\ predictions \in PredictionLists
    /\ selected_races = <<>>
    /\ final_selected = <<>>
    /\ selectCalls = {}

\* select_predictions.main: select_races(race_data, max_races=5)
SelectRaces ==
    /\ "select_predictions" \notin selectCalls
    /\ selected_races' = sp_select_races(race_data, MAX_RACES)
    /\ selectCalls' = selectCalls \cup {"select_predictions"}
    /\ UNCHANGED <<race_data, predictions, final_selected, ledgerVars, raceVars, investVars, reconVars,
                   scoreVars, batchVars, stageVars>>

\* generate_final_output.main: select_races(predictions, min_races=3, max_races=5)
SelectFinalRaces ==
    /\ "generate_final_output" \notin selectCalls
    /\ final_selected' = gfo_select_races(predictions, MIN_RACES, MAX_RACES)
    /\ selectCalls' = selectCalls \cup {"generate_final_output"}
    /\ UNCHANGED <<race_data, predictions, selected_races, ledgerVars, raceVars, investVars, reconVars,
                   scoreVars, batchVars, stageVars>>

NextSelect ==
    \/ SelectRaces
    \/ SelectFinalRaces

\* One day of races under selection, every other component at rest.
StartSelect ==
    InitSelect /\ IdleLedger /\ IdleRace /\ IdleInvest /\ IdleRecon
        /\ IdleScore /\ IdleBatch /\ IdleStage

SpecSelect == StartSelect /\ [][NextSelect]_vars

(***************************************************************************)
(* Claims about the race selectors (checked under SpecSelect)              *)
(***************************************************************************)
\* The races of the input that carry a score: those that have horses, and the
\* predictions that carry a volatility label.
ScoredRaces == {i \in 1..Len(race_data) : race_data[i].horses # <<>>}
ScoredPredictions ==
    {i \in 1..Len(predictions) : predictions[i].turbulence \in {"low", "mid", "high"}}

\* The low- or medium-volatility races available in the input.
CalmRaces ==
    {i \in ScoredRaces : calculate_turbulence(race_data[i].horses) \in {"low", "mid"}}
CalmPredictions ==
    {i \in 1..Len(predictions) : predictions[i].turbulence \in {"low", "mid"}}

HighSelectedBySP == \E i \in 1..Len(selected_races) : selected_races[i].turbulence = "high"
HighSelectedByGFO == \E i \in 1..Len(final_selected) : final_selected[i].turbulence = "high"

\* C5 (as claimed): in both selectors a high-volatility race is in the
\* selected output only if fewer than 3 low or medium races are available.
C5_HighOnlyAsFallBack ==
    /\ ("select_predictions" \in selectCalls /\ HighSelectedBySP) =>
           Cardinality(CalmRaces) < 3
    /\ ("generate_final_output" \in selectCalls /\ HighSelectedByGFO) =>
           Cardinality(CalmPredictions) < 3

\* C5 (amended): in generate_final_output.select_races a high-volatility race
\* is in the selected output only if fewer than 3 low or medium races are
\* available, and then only as many as bring the selection to 3;
\* select_predictions.select_races takes the (up to 5) races with the highest
\* evaluation score whatever their volatility.
C5_HighOnlyAsFallBackInFinalOutput ==
    /\ ("generate_final_output" \in selectCalls /\ HighSelectedByGFO) =>
           /\ Cardinality(CalmPredictions) < 3
           /\ Len(final_selected) <= 3
    /\ "select_predictions" \in selectCalls =>
           \A i \in 1..Len(selected_races) : \A j \in ScoredRaces :
               (\A k \in 1..Len(selected_races) : selected_races[k].race_id # j) =>
                   Evaluation6(race_data[j].horses) <= selected_races[i].evaluation6

\* generate_final_output has fallen back on a high-volatility race.
C5_Witness ==
    /\ "generate_final_output" \in selectCalls
    /\ HighSelectedByGFO
    /\ Cardinality(CalmPredictions) = 2
    /\ Len(predictions) = MaxRaces

\* A sequence of records names distinct races of the input.
DistinctIds(seq) == \A i, j \in 1..Len(seq) : seq[i].race_id = seq[j].race_id => i = j

\* C6: for an input holding at least 3 scored races, each selector returns an
\* ordered subset of between 3 and 5 races.
C6_ThreeToFiveRaces ==
    /\ ("select_predictions" \in selectCalls /\ Cardinality(ScoredRaces) >= 3) =>
           /\ Len(selected_races) >= 3
           /\ Len(selected_races) <= 5
           /\ DistinctIds(selected_races)
           /\ \A i \in 1..Len(selected_races) : selected_races[i].race_id \in ScoredRaces
    /\ ("generate_final_output" \in selectCalls /\ Cardinality(ScoredPredictions) >= 3) =>
           /\ Len(final_selected) >= 3
           /\ Len(final_selected) <= 5
           /\ DistinctIds(final_selected)
           /\ \A i \in 1..Len(final_selected) : InSeq(final_selected[i], predictions)

\* Six scored races offered to select_predictions, five selected.
C6_Witness ==
    /\ "select_predictions" \in selectCalls
    /\ Cardinality(ScoredRaces) = 6
    /\ Len(selected_races) = 5

(***************************************************************************)
(* Stake allocation: scripts/select_predictions.py calculate_investment    *)
(* and scripts/calculate_investment.py calculate_race_investments          *)
(*                                                                         *)
(* A race handed to an allocator is [race_id, turbulence, bets]: bets is   *)
(* the length of its 買い目 list (read by calculate_race_investments only, *)
(* which takes 24 when the list is empty or missing).                      *)
(***************************************************************************)
\* Bound: the number of races handed to an allocator.
MaxAllocRaces == 4

\* Budgets of the model: 12000 is select_predictions.main's total_budget,
\* 4286 the daily budget of calculate_investment's own test, 350 a budget
\* too small for one 100-yen unit per race.
AllocBudgets == {350, 4286, 12000}
BetCounts == {0, 10}
AllocKinds == {[turbulence |-> t, bets |-> b] : t \in {"low", "mid", "high"}, b \in BetCounts}

MakeAllocRaces(kinds) ==
    [i \in 1..Len(kinds) |->
        [race_id |-> i, turbulence |-> kinds[i].turbulence, bets |-> kinds[i].bets]]

AllocInputs == {MakeAllocRaces(k) : k \in SeqsUpTo(AllocKinds, MaxAllocRaces)}

\* [r for r in races if r['turbulence'] == t]
WithTurbulence(races, t) == SelectSeq(races, LAMBDA r : r.turbulence = t)

\* low_ratio = 0.60 and mid_ratio = 0.40, in percent.
LOW_RATIO == 60
MID_RATIO == 40

\* The unit the per-race stake is rounded down to.
STAKE_UNIT == 100

\* (budget // n // 100) * 100 for the share int(total_budget * ratio) of a
\* volatility class with n races.
PerRace(total_budget, ratio, n) ==
    IF n = 0 THEN 0
    ELSE ((((total_budget * ratio) \div 100) \div n) \div STAKE_UNIT) * STAKE_UNIT

\* select_predictions.calculate_investment(selected_races, total_budget)
sp_calculate_investment(races, total_budget) ==
    LET low_turbulence == WithTurbulence(races, "low")
        mid_turbulence == WithTurbulence(races, "mid")
        low_per_race == PerRace(total_budget, LOW_RATIO, Len(low_turbulence))
        mid_per_race == PerRace(total_budget, MID_RATIO, Len(mid_turbulence))
        race_investments ==
            [i \in 1..Len(races) |->
                [race_id |-> races[i].race_id,
                 turbulence |-> races[i].turbulence,
                 investment |-> IF races[i].turbulence = "low" THEN low_per_race
                                ELSE IF races[i].turbulence = "mid" THEN mid_per_race
                                ELSE 0]]
    IN  IF low_turbulence \o mid_turbulence = <<>>
        THEN [total_investment |-> 0, low_investment |-> 0, mid_investment |-> 0,
              races |-> <<>>]
        ELSE [total_investment |->
                  SumSeq([i \in 1..Len(races) |-> race_investments[i].investment]),
              low_investment |-> low_per_race * Len(low_turbulence),
              mid_investment |-> mid_per_race * Len(mid_turbulence),
              races |-> race_investments]

\* TURBULENCE_WEIGHTS, in percent.
TURBULENCE_WEIGHTS == [low |-> 60, mid |-> 40, high |-> 0]

\* MIN_BET_AMOUNT and the default number of bets.
MIN_BET_AMOUNT == 100
DEFAULT_BET_COUNT == 24

\* turbulence_dist computed from the races (turbulence_dist=None).
AutoDist(races) ==
    [low |-> Len(WithTurbulence(races, "low")),
     mid |-> Len(WithTurbulence(races, "mid")),
     high |-> Len(WithTurbulence(races, "high"))]

\* The turbulence_dist arguments of the model: given = FALSE stands for None,
\* the first explicit one is that of the module's own test.
DistArguments ==
    {[given |-> FALSE, low |-> 0, mid |-> 0, high |-> 0],
     [given |-> TRUE, low |-> 1, mid |-> 3, high |-> 1],
     [given |-> TRUE, low |-> 0, mid |-> 2, high |-> 0]}

\* The stake of one race that is not high:
\* max(MIN_BET_AMOUNT, int(race_budget / bet_count / 100) * 100) * bet_count
\* with race_budget = daily_budget * weight / turbulence_dist[turbulence].
RaceStake(r, daily_budget, dist) ==
    LET bet_count == IF r.bets > 0 THEN r.bets ELSE DEFAULT_BET_COUNT
        per_bet == ((daily_budget * TURBULENCE_WEIGHTS[r.turbulence])
                       \div (100 * dist[r.turbulence] * bet_count * 100)) * 100
    IN  Max2(MIN_BET_AMOUNT, per_bet) * bet_count

\* calculate_race_investments without the branch that skips a high race: the
\* weight 0 gives a race budget of 0, which max() lifts to MIN_BET_AMOUNT.
calculate_race_investments_NoSkip(races, daily_budget, turbulence_dist) ==
    LET dist == IF turbulence_dist.given THEN turbulence_dist ELSE AutoDist(races)
        weighted == dist.low * TURBULENCE_WEIGHTS.low + dist.mid * TURBULENCE_WEIGHTS.mid
                    + dist.high * TURBULENCE_WEIGHTS.high
    IN  IF weighted = 0 THEN [status |-> "ok", amounts |-> <<>>]
        ELSE IF \E i \in 1..Len(races) : dist[races[i].turbulence] = 0
        THEN [status |-> "ZeroDivisionError", amounts |-> <<>>]
        ELSE [status |-> "ok",
              amounts |-> [i \in 1..Len(races) |->
                  [race_id |-> races[i].race_id,
                   investment |-> RaceStake(races[i], daily_budget, dist)]]]

\* calculate_investment.calculate_race_investments(races, daily_budget,
\* turbulence_dist): the returned dict as the list of its items; the status is
\* ZeroDivisionError when an explicit turbulence_dist gives 0 for the volatility
\* of a race that is not high (the division raises, nothing is returned).
calculate_race_investments(races, daily_budget, turbulence_dist) ==
    LET dist == IF turbulence_dist.given THEN turbulence_dist ELSE AutoDist(races)
        weighted == dist.low * TURBULENCE_WEIGHTS.low + dist.mid * TURBULENCE_WEIGHTS.mid
                    + dist.high * TURBULENCE_WEIGHTS.high
    IN  IF weighted = 0 THEN [status |-> "ok", amounts |-> <<>>]
        ELSE IF \E i \in 1..Len(races) :
                    races[i].turbulence # "high" /\ dist[races[i].turbulence] = 0
        THEN [status |-> "ZeroDivisionError", amounts |-> <<>>]
        ELSE [status |-> "ok",
              amounts |-> [i \in 1..Len(races) |->
                  [race_id |-> races[i].race_id,
                   investment |-> IF races[i].turbulence = "high" THEN 0
                                  ELSE RaceStake(races[i], daily_budget, dist)]]]

InitInvest ==
    /\ alloc_races \in AllocInputs
    /\ budget \in AllocBudgets
    /\ investment_plan = NoInvestmentPlan
    /\ investments = NoInvestments
    /\ investCalls = {}

CalculateInvestment ==
    /\ "select_predictions" \notin investCalls
    /\ investment_plan' = sp_calculate_investment(alloc_races, budget)
    /\ investCalls' = investCalls \cup {"select_predictions"}
    /\ UNCHANGED <<alloc_races, budget, investments, ledgerVars, raceVars, selectVars, reconVars,
                   scoreVars, batchVars, stageVars>>

CalculateRaceInvestments ==
    /\ "calculate_investment" \notin investCalls
    /\ \E turbulence_dist \in DistArguments :
           investments' = calculate_race_investments(alloc_races, budget, turbulence_dist)
    /\ investCalls' = investCalls \cup {"calculate_investment"}
    /\ UNCHANGED <<alloc_races, budget, investment_plan, ledgerVars, raceVars, selectVars, reconVars,
                   scoreVars, batchVars, stageVars>>

NextInvest ==
    \/ CalculateInvestment
    \/ CalculateRaceInvestments

\* One allocation, every other component at rest.
StartInvest ==
    InitInvest /\ IdleLedger /\ IdleRace /\ IdleSelect /\ IdleRecon
        /\ IdleScore /\ IdleBatch /\ IdleStage

SpecInvest == StartInvest /\ [][NextInvest]_vars

(***************************************************************************)
(* Claims about the allocators (checked under SpecInvest)                  *)
(***************************************************************************)
\* The volatility label of the race with a given id.
LabelOf(id) == alloc_races[id].turbulence

\* C8: a race labelled high volatility is never allocated a positive stake,
\* by select_predictions.calculate_investment and by
\* calculate_investment.calculate_race_investments, whatever the budget and
\* the other races of the day.
C8_NoStakeOnHigh ==
    /\ \A i \in 1..Len(investment_plan.races) :
           LabelOf(investment_plan.races[i].race_id) = "high" =>
               investment_plan.races[i].investment = 0
    /\ \A i \in 1..Len(investments.amounts) :
           LabelOf(investments.amounts[i].race_id) = "high" =>
               investments.amounts[i].investment = 0

\* Both allocators have run on a day with a high race next to a low and a
\* medium race, which did get stakes.
C8_Witness ==
    /\ investCalls = {"select_predictions", "calculate_investment"}
    /\ budget = 12000
    /\ \E i \in 1..Len(investment_plan.races) :
           /\ investment_plan.races[i].turbulence = "high"
           /\ investment_plan.races[i].investment = 0
    /\ investment_plan.total_investment > 0
    /\ \E i, j \in 1..Len(investments.amounts) :
           /\ LabelOf(investments.amounts[i].race_id) = "high"
           /\ investments.amounts[i].investment = 0
           /\ investments.amounts[j].investment > 0

\* C26 (as claimed): the stakes an allocator returns add up to at most the
\* budget it was given, for select_predictions.calculate_investment
\* (total_investment) and for calculate_investment.calculate_race_investments
\* (the sum of the returned investments).
C26_StakesWithinBudget ==
    /\ investment_plan.total_investment <= budget
    /\ SumSeq([i \in 1..Len(investments.amounts) |->
                  investments.amounts[i].investment]) <= budget

(***************************************************************************)
(* Reconciliation: scripts/fetch_race_results.py fetch_race_results (the   *)
(* body of its loop, for one race) and scripts/generate_results_summary.py *)
(* check_hit / generate_summary (one item of details)                      *)
(*                                                                         *)
(* A string of digits is the sequence of its digits; in a joined string    *)
(* the separator "-" is the element DASH.                                  *)
(***************************************************************************)
\* The horse numbers of the model (one of them has two digits), the payouts
\* (0: no payout row was parsed) and the stake of a prediction.
Umabans == {1, 2, 3, 8, 9, 10}
Payouts == {0, 1290}
Stakes == {1200}

\* investment = race.get('investment', 2400) in fetch_race_results and
\* prediction.get('investment', 0) in generate_summary.
DEFAULT_INVESTMENT_FETCH == 2400
DEFAULT_INVESTMENT_SUMMARY == 0

DASH == 0 - 1

\* str(n) for 1 <= n <= 99
Str(n) == IF n < 10 THEN <<n>> ELSE <<n \div 10, n % 10>>

\* The order of Python's string comparison on strings of one or two digits.
LexKey(str) == 11 * str[1] + (IF Len(str) > 1 THEN str[2] + 1 ELSE 0)

\* sorted(strs) for strings of digits: ascending, stable.
SortedStrs(strs) == Permute(strs, OrderDesc([i \in 1..Len(strs) |-> 0 - LexKey(strs[i])]))

\* '-'.join(strs)
RECURSIVE Join(_)
Join(strs) ==
    IF strs = <<>> THEN <<>>
    ELSE IF Len(strs) = 1 THEN strs[1]
    ELSE strs[1] \o <<DASH>> \o Join(Tail(strs))

\* text.split('-')
RECURSIVE SplitFrom(_, _)
SplitFrom(text, current) ==
    IF text = <<>> THEN <<current>>
    ELSE IF Head(text) = DASH THEN <<current>> \o SplitFrom(Tail(text), <<>>)
    ELSE SplitFrom(Tail(text), Append(current, Head(text)))

Split(text) == SplitFrom(text, <<>>)

\* set(list)
SetOf(seq) == {seq[i] : i \in 1..Len(seq)}

\* Sequences over S without repetition, of length n.
DistinctSeqs(S, n) == {q \in [1..n -> S] : \A i, j \in 1..n : q[i] = q[j] => i = j}

\* The prediction of one race: the 馬番 of its axis horses in rank order (a
\* field of fewer than three horses gives fewer), and its investment key.
PredictionInputs ==
    {[axis |-> a, has_investment |-> h, investment |-> IF h THEN s ELSE 0] :
        a \in UNION {DistinctSeqs(Umabans, n) : n \in 0..3},
        h \in BOOLEAN, s \in Stakes}

\* The official result: the horses placed first to third and the 三連複
\* payout, or no result (the page could not be fetched or parsed).
OfficialInputs ==
    {[available |-> TRUE, top_3 |-> t, payout |-> p] :
        t \in DistinctSeqs(Umabans, 3), p \in Payouts}
    \cup {NoOfficial}

\* fetch_single_race_result: None, or the dict with sanrenpuku_result =
\* '-'.join(sorted(top_3)) over the scraped number strings.
fetch_single_race_result(off) ==
    IF ~off.available THEN [found |-> FALSE, sanrenpuku_result |-> <<>>, sanrenpuku_payout |-> 0]
    ELSE [found |-> TRUE,
          sanrenpuku_result |->
              Join(SortedStrs([i \in 1..Len(off.top_3) |-> Str(off.top_3[i])])),
          sanrenpuku_payout |-> off.payout]

\* predicted_combinations
PredictedCombinations(pred) ==
    IF Len(pred.axis) >= 3
    THEN <<Join(SortedStrs([i \in 1..3 |-> Str(pred.axis[i])]))>>
    ELSE <<>>

\* The loop body of fetch_race_results with the hit decided on the sorted
\* lists of numbers compared position by position as integers read from the
\* unsorted finishing order (order-sensitive).
reconcile_race_OrderSensitive(pred, off) ==
    LET predicted_combinations == PredictedCombinations(pred)
        investment == IF pred.has_investment THEN pred.investment
                      ELSE DEFAULT_INVESTMENT_FETCH
        race_result == fetch_single_race_result(off)
        hit == /\ race_result.found
               /\ predicted_combinations # <<>>
               /\ pred.axis = off.top_3
        return_amount == IF hit THEN race_result.sanrenpuku_payout ELSE 0
    IN  IF ~race_result.found
        THEN [status |-> "unavailable", predicted |-> predicted_combinations,
              actual |-> <<>>, hit |-> FALSE, investment |-> investment,
              return |-> 0, profit |-> 0 - investment]
        ELSE [status |-> IF hit THEN "hit" ELSE "miss",
              predicted |-> predicted_combinations,
              actual |-> <<race_result.sanrenpuku_result>>,
              hit |-> hit, investment |-> investment,
              return |-> return_amount, profit |-> return_amount - investment]

\* The loop body of fetch_race_results for one selected race: the entry
\* appended to results (status 結果取得不可 / 的中 / 不的中 written
\* "unavailable" / "hit" / "miss").
reconcile_race(pred, off) ==
    LET predicted_combinations == PredictedCombinations(pred)
        investment == IF pred.has_investment THEN pred.investment
                      ELSE DEFAULT_INVESTMENT_FETCH
        race_result == fetch_single_race_result(off)
        hit == /\ race_result.found
               /\ race_result.sanrenpuku_result # <<>>
               /\ predicted_combinations # <<>>
               /\ \E c \in 1..Len(predicted_combinations) :
                      SetOf(Split(race_result.sanrenpuku_result))
                          = SetOf(Split(predicted_combinations[c]))
        return_amount == IF hit THEN race_result.sanrenpuku_payout ELSE 0
    IN  IF ~race_result.found
        THEN [status |-> "unavailable", predicted |-> predicted_combinations,
              actual |-> <<>>, hit |-> FALSE, investment |-> investment,
              return |-> 0, profit |-> 0 - investment]
        ELSE [status |-> IF hit THEN "hit" ELSE "miss",
              predicted |-> predicted_combinations,
              actual |-> <<race_result.sanrenpuku_result>>,
              hit |-> hit, investment |-> investment,
              return |-> return_amount, profit |-> return_amount - investment]

\* sorted(list of int)
SortedInts(seq) == Permute(seq, OrderDesc([i \in 1..Len(seq) |-> 0 - seq[i]]))

\* check_hit(prediction, result) for a result dict holding 着順 = {'1': first,
\* '2': second, '3': third} and 払戻 = {'三連複': payout}, or no result.
check_hit(pred, off) ==
    IF ~off.available
    THEN [hit |-> FALSE, payout |-> 0, reason |-> "no result data"]
    ELSE IF Len(pred.axis) < 3
    THEN [hit |-> FALSE, payout |-> 0, reason |-> "invalid prediction data"]
    ELSE IF SortedInts(off.top_3) = SortedInts(pred.axis)
    THEN [hit |-> TRUE, payout |-> off.payout, reason |-> "hit"]
    ELSE [hit |-> FALSE, payout |-> 0, reason |-> "miss"]

\* The item generate_summary appends to details for one prediction.
summary_item_of(pred, off) ==
    LET investment == IF pred.has_investment THEN pred.investment
                      ELSE DEFAULT_INVESTMENT_SUMMARY
        hit_result == check_hit(pred, off)
    IN  [reason |-> hit_result.reason, hit |-> hit_result.hit,
         investment |-> investment, payout |-> hit_result.payout,
         profit |-> hit_result.payout - investment]

InitRecon ==
    /\ prediction \in PredictionInputs
    /\ official \in OfficialInputs
    /\ result_entry = NoEntry
    /\ summary_item = NoItem
    /\ file_item = NoItem
    /\ reconCalls = {}

FetchRaceResults ==
    /\ "fetch_race_results" \notin reconCalls
    /\ result_entry' = reconcile_race(prediction, official)
    /\ reconCalls' = reconCalls \cup {"fetch_race_results"}
    /\ UNCHANGED <<prediction, official, summary_item, file_item,
                   ledgerVars, raceVars, selectVars, investVars,
                   scoreVars, batchVars, stageVars>>

GenerateSummary ==
    /\ "generate_results_summary" \notin reconCalls
    /\ summary_item' = summary_item_of(prediction, official)
    /\ reconCalls' = reconCalls \cup {"generate_results_summary"}
    /\ UNCHANGED <<prediction, official, result_entry, file_item,
                   ledgerVars, raceVars, selectVars, investVars,
                   scoreVars, batchVars, stageVars>>

\* The keys of an entry fetch_race_results appends to results, and so of an
\* element of "results" in race_results_{ymd}.json ("chakujun" and
\* "haraimodoshi" stand for the keys 着順 and 払戻, which are not among them).
EntryKeys ==
    {"race_id", "venue", "race_num", "race_name", "distance", "track", "status",
     "predicted", "actual", "result_sanrenpuku", "payout_sanrenpuku", "hit",
     "investment", "return", "profit", "payouts", "horse_weights", "weather",
     "track_condition"}

\* What check_hit reads from the entry of the file: result.get('着順') and
\* result.get('払戻', {}).get('三連複', 0).  The entry holds neither key, so
\* the first is None and check_hit takes its branch 結果データなし.
ResultReadFromEntry(entry, off) ==
    IF "chakujun" \in EntryKeys
    THEN [available |-> off.available, top_3 |-> off.top_3,
          payout |-> IF "haraimodoshi" \in EntryKeys THEN off.payout ELSE 0]
    ELSE NoOfficial

\* generate_results_summary.main: generate_summary over the results of
\* race_results_{ymd}.json, which must exist, and the same prediction.
GenerateSummaryFromFile ==
    /\ "fetch_race_results" \in reconCalls
    /\ "generate_results_summary.main" \notin reconCalls
    /\ file_item' = summary_item_of(prediction, ResultReadFromEntry(result_entry, official))
    /\ reconCalls' = reconCalls \cup {"generate_results_summary.main"}
    /\ UNCHANGED <<prediction, official, result_entry, summary_item,
                   ledgerVars, raceVars, selectVars, investVars,
                   scoreVars, batchVars, stageVars>>

NextRecon ==
    \/ FetchRaceResults
    \/ GenerateSummary
    \/ GenerateSummaryFromFile

\* One race under reconciliation, every other component at rest.
StartRecon ==
    InitRecon /\ IdleLedger /\ IdleRace /\ IdleSelect /\ IdleInvest
        /\ IdleScore /\ IdleBatch /\ IdleStage

SpecReconcile == StartRecon /\ [][NextRecon]_vars

(***************************************************************************)
(* Claims about the reconcilers (checked under SpecReconcile)              *)
(***************************************************************************)
\* The three axis horse numbers are exactly the actual top three.
AxisIsTop3 ==
    /\ official.available
    /\ Len(prediction.axis) = 3
    /\ SetOf(prediction.axis) = SetOf(official.top_3)

\* C4: the reconciler reports hit = true exactly when the set of the three
\* axis horse numbers equals the set of the actual top-3 finishers,
\* irrespective of order (axis [2,8,9] against the finishing order [2,8,9] is
\* a hit, axis [1,2,3] is not); on a hit profit = payout - stake, on a miss
\* profit = -stake.
C4_HitIsSetEquality ==
    /\ "fetch_race_results" \in reconCalls =>
           /\ result_entry.hit <=> AxisIsTop3
           /\ result_entry.hit =>
                  /\ result_entry.return = official.payout
                  /\ result_entry.profit = official.payout - result_entry.investment
           /\ ~result_entry.hit => result_entry.profit = 0 - result_entry.investment
           /\ result_entry.investment =
                  (IF prediction.has_investment THEN prediction.investment ELSE 2400)
    /\ "generate_results_summary" \in reconCalls =>
           /\ summary_item.hit <=> AxisIsTop3
           /\ summary_item.hit =>
                  /\ summary_item.payout = official.payout
                  /\ summary_item.profit = official.payout - summary_item.investment
           /\ ~summary_item.hit => summary_item.profit = 0 - summary_item.investment
           /\ summary_item.investment =
                  (IF prediction.has_investment THEN prediction.investment ELSE 0)
    /\ (reconCalls # {} /\ official.available /\ SetOf(official.top_3) = {2, 8, 9}) =>
           /\ prediction.axis = <<2, 8, 9>> =>
                  /\ "fetch_race_results" \in reconCalls => result_entry.hit
                  /\ "generate_results_summary" \in reconCalls => summary_item.hit
           /\ prediction.axis = <<1, 2, 3>> =>
                  /\ ~result_entry.hit
                  /\ ~summary_item.hit

\* Both reconcilers report a hit for an axis that is the top three in another
\* order, with the payout less the stake as profit.
C4_Witness ==
    /\ reconCalls = {"fetch_race_results", "generate_results_summary"}
    /\ prediction.axis = <<2, 8, 9>>
    /\ official.available
    /\ official.top_3 = <<9, 2, 8>>
    /\ official.payout = 1290
    /\ prediction.has_investment
    /\ result_entry.hit
    /\ summary_item.hit
    /\ result_entry.profit = 90
    /\ summary_item.profit = 90

\* C27 (as claimed): a race fetch_race_results records as a hit in
\* race_results_{ymd}.json is a hit with the same payout when
\* generate_results_summary reconciles that file against the same prediction,
\* so that both stages report the same hits and the same payout.
C27_SameHitAndPayout ==
    "generate_results_summary.main" \in reconCalls =>
        /\ file_item.hit = result_entry.hit
        /\ file_item.payout = result_entry.return

(***************************************************************************)
(* Horse scoring: scripts/calculate_des.py and the earlier revision        *)
(* scripts/calculate_des_score.py                                          *)
(*                                                                         *)
(* A horse is [past_races, jockey, waku, trainer]: 騎手 and 厩舎 are ""    *)
(* when missing, 枠番 is 0 when missing or None.  A past race is           *)
(* [distance, track, corner, rank, jockey, weight]: 距離, 距離種別 ("da"   *)
(* for ダ, "shiba" for 芝), コーナー通過順 as the list of its positions    *)
(* (empty when the key is missing), 着順 as a number (99 when the key is   *)
(* missing, which is what the code reads then), 騎手, and the kilograms of *)
(* 馬体重.  Scores are whole numbers of points.                            *)
(***************************************************************************)
\* Bound: the number of past races of a scored horse.
MaxPast == 3

\* race_info: 距離 and トラック of the race the horse is entered in.
TargetRace == [distance |-> 1400, track |-> "da"]

\* The past races of the model.
PastKinds ==
    {[distance |-> 1400, track |-> "da", corner |-> <<1, 1, 1, 1>>, rank |-> 1,
      jockey |-> "J1", weight |-> 470],
     [distance |-> 1400, track |-> "da", corner |-> <<2, 2, 2, 2>>, rank |-> 2,
      jockey |-> "J1", weight |-> 472],
     [distance |-> 1500, track |-> "da", corner |-> <<3, 3, 3, 3>>, rank |-> 3,
      jockey |-> "J2", weight |-> 470],
     [distance |-> 1650, track |-> "shiba", corner |-> <<9, 9, 8, 9>>, rank |-> 9,
      jockey |-> "J2", weight |-> 482],
     [distance |-> 1800, track |-> "da", corner |-> <<>>, rank |-> 99,
      jockey |-> "J1", weight |-> 470],
     [distance |-> 1400, track |-> "shiba", corner |-> <<4, 5, 6>>, rank |-> 6,
      jockey |-> "J2", weight |-> 476],
     [distance |-> 1200, track |-> "da", corner |-> <<9, 8, 3, 1>>, rank |-> 1,
      jockey |-> "J1", weight |-> 460]}

Jockeys == {"", "J1"}
Trainers == {"", "T1"}
WakuValues == {0, 2, 5, 7}

HorseInputs ==
    {[past_races |-> p, jockey |-> j, waku |-> w, trainer |-> t] :
        p \in SeqsUpTo(PastKinds, MaxPast), j \in Jockeys, w \in WakuValues,
        t \in Trainers}

Abs(x) == IF x < 0 THEN 0 - x ELSE x

\* The rank read when none can be read.
NO_RANK == 99

\* extract_rank_from_corner_position: the last position, 99 for no string.
extract_rank_from_corner_position(corner_position) ==
    IF corner_position = <<>> THEN NO_RANK
    ELSE corner_position[Len(corner_position)]

\* int(corner_position.split('-')[0]) for a non-empty corner_position.
FirstPosition(corner_position) == corner_position[1]

\* The point values and caps of the four sub-scores.
SAME_CONDITION_CAP == 20
TREND_RISING == 10
TREND_STABLE == 7
RATE_POINTS == 5
DISTANCE_FIT_GOOD == 15
DISTANCE_FIT_FAIR == 8
TRACK_FIT_GOOD == 10
TRACK_FIT_FAIR == 5
WEIGHT_STABLE == 5
WEIGHT_PENALTY == 3
JOCKEY_GOOD == 10
JOCKEY_FAIR == 5
STABLE_GOOD == 10
STABLE_FAIR == 5
STYLE_CLEAR == 7
STYLE_GENERIC == 3
WAKU_POINTS == 3

\* The points of one race run under the same conditions, by rank.
RankPoints(rank) ==
    IF rank = 1 THEN 10 ELSE IF rank = 2 THEN 7 ELSE IF rank = 3 THEN 3 ELSE 0

\* The rank read from a past race: calculate_des.py reads it from
\* コーナー通過順 (from_corner), calculate_des_score.py from 着順.
RankOf(r, from_corner) ==
    IF from_corner THEN extract_rank_from_corner_position(r.corner) ELSE r.rank

\* Sections 1 to 3 of calculate_past_performance_score; capped tells whether
\* the sum of section 1 passes through min(., 20).
PastPerformance(h, race_info, from_corner, capped) ==
    LET past == h.past_races
        Rank(r) == RankOf(r, from_corner)
        Cap(x) == IF capped THEN Min2(x, SAME_CONDITION_CAP) ELSE x
        SameCondition(r) ==
            /\ Abs(r.distance - race_info.distance) <= 200
            /\ r.track = race_info.track
        same_condition_score ==
            SumSeq([i \in 1..Len(past) |->
                       IF SameCondition(past[i]) THEN RankPoints(Rank(past[i])) ELSE 0])
        ranks == [i \in 1..Len(Take(past, 3)) |-> Rank(past[i])]
        trend == IF Len(ranks) >= 3
                 THEN IF ranks[1] < ranks[2] /\ ranks[2] < ranks[3] THEN TREND_RISING
                      ELSE IF \A i \in 1..3 : ranks[i] <= 3 THEN TREND_STABLE
                      ELSE 0
                 ELSE 0
        recent == Take(past, 5)
        wins == Len(SelectSeq(recent, LAMBDA r : Rank(r) = 1))
        places == Len(SelectSeq(recent, LAMBDA r : Rank(r) <= 2))
    IN  IF past = <<>> THEN 0
        ELSE Cap(same_condition_score) + trend
             + (IF 100 * wins >= 10 * Len(recent) THEN RATE_POINTS ELSE 0)
             + (IF 100 * places >= 30 * Len(recent) THEN RATE_POINTS ELSE 0)

\* calculate_past_performance_score without min(same_condition_score, 20).
cd_calculate_past_performance_score_NoCap(h, race_info) ==
    PastPerformance(h, race_info, TRUE, FALSE)

\* calculate_des.calculate_past_performance_score
cd_calculate_past_performance_score(h, race_info) ==
    PastPerformance(h, race_info, TRUE, TRUE)

\* calculate_des_score.calculate_past_performance_score
cds_calculate_past_performance_score(h, race_info) ==
    PastPerformance(h, race_info, FALSE, TRUE)

\* calculate_pedigree_score; a weight change of 10 kg or more takes 3 points
\* off the score so far: score = max(0, score - 3) when clamped, score -= 3
\* otherwise.
Pedigree(h, race_info, from_corner, clamped) ==
    LET past == h.past_races
        Rank(r) == RankOf(r, from_corner)
        Penalty(x) == IF clamped THEN Max2(0, x - WEIGHT_PENALTY)
                      ELSE x - WEIGHT_PENALTY
        same_distance == SelectSeq(past,
                             LAMBDA r : Abs(r.distance - race_info.distance) <= 300)
        same_distance_performance == Len(SelectSeq(same_distance, LAMBDA r : Rank(r) <= 3))
        distance_fit ==
            IF Len(same_distance) = 0 THEN 0
            ELSE IF 100 * same_distance_performance >= 50 * Len(same_distance)
                 THEN DISTANCE_FIT_GOOD
            ELSE IF 100 * same_distance_performance >= 30 * Len(same_distance)
                 THEN DISTANCE_FIT_FAIR
            ELSE 0
        same_track == SelectSeq(past, LAMBDA r : r.track = race_info.track)
        track_performance == Len(SelectSeq(same_track, LAMBDA r : Rank(r) <= 3))
        track_fit ==
            IF Len(same_track) = 0 THEN 0
            ELSE IF 100 * track_performance >= 40 * Len(same_track) THEN TRACK_FIT_GOOD
            ELSE IF 100 * track_performance >= 20 * Len(same_track) THEN TRACK_FIT_FAIR
            ELSE 0
        score == distance_fit + track_fit
    IN  IF Len(past) >= 2
        THEN LET weight_diff == Abs(past[1].weight - past[2].weight)
             IN  IF weight_diff <= 3 THEN score + WEIGHT_STABLE
                 ELSE IF weight_diff >= 10 THEN Penalty(score)
                 ELSE score
        ELSE score

\* calculate_des.calculate_pedigree_score
cd_calculate_pedigree_score(h, race_info) ==
    Pedigree(h, race_info, TRUE, TRUE)

\* calculate_des_score.calculate_pedigree_score
cds_calculate_pedigree_score(h, race_info) ==
    Pedigree(h, race_info, FALSE, FALSE)

\* calculate_jockey_trainer_score; stable_part tells whether section 2 is
\* computed at all.
JockeyTrainer(h, from_corner, stable_part) ==
    LET past == h.past_races
        Rank(r) == RankOf(r, from_corner)
        with_jockey == SelectSeq(past, LAMBDA r : r.jockey = h.jockey)
        jockey_wins == Len(SelectSeq(with_jockey, LAMBDA r : Rank(r) = 1))
        jockey_points ==
            IF h.jockey = "" \/ Len(with_jockey) = 0 THEN 0
            ELSE IF 100 * jockey_wins >= 15 * Len(with_jockey) THEN JOCKEY_GOOD
            ELSE IF 100 * jockey_wins >= 5 * Len(with_jockey) THEN JOCKEY_FAIR
            ELSE 0
        recent == Take(past, 5)
        places == Len(SelectSeq(recent, LAMBDA r : Rank(r) <= 2))
        stable_points ==
            IF ~stable_part \/ Len(past) = 0 THEN 0
            ELSE IF 100 * places >= 30 * Len(recent) THEN STABLE_GOOD
            ELSE IF 100 * places >= 10 * Len(recent) THEN STABLE_FAIR
            ELSE 0
    IN  jockey_points + stable_points

\* calculate_des.calculate_jockey_trainer_score
cd_calculate_jockey_trainer_score(h, race_info) ==
    JockeyTrainer(h, TRUE, TRUE)

\* calculate_des_score.calculate_jockey_trainer_score: section 2 needs 厩舎.
cds_calculate_jockey_trainer_score(h, race_info) ==
    JockeyTrainer(h, FALSE, h.trainer # "")

\* Section 1 of calculate_race_style_score (the same in both revisions);
\* needs_past tells whether the section is skipped for a horse without past
\* races.
StylePoints(h, needs_past) ==
    LET recent == SelectSeq(Take(h.past_races, 3), LAMBDA r : r.corner # <<>>)
        front_runner_count == Len(SelectSeq(recent, LAMBDA r : FirstPosition(r.corner) <= 3))
        closer_count == Len(SelectSeq(recent, LAMBDA r : FirstPosition(r.corner) >= 8))
    IN  IF needs_past /\ Len(h.past_races) = 0 THEN 0
        ELSE IF front_runner_count >= 2 THEN STYLE_CLEAR
        ELSE IF closer_count >= 2 THEN STYLE_CLEAR
        ELSE STYLE_GENERIC

\* calculate_race_style_score of calculate_des.py without the test
\* len(past_races) > 0.
cd_calculate_race_style_score_NoPastTest(h, race_info) ==
    StylePoints(h, FALSE)
    + (IF h.waku # 0 /\ 1 <= h.waku /\ h.waku <= 6 THEN WAKU_POINTS ELSE 0)

\* calculate_des.calculate_race_style_score: 枠番 1 to 6 earns the points.
cd_calculate_race_style_score(h, race_info) ==
    StylePoints(h, TRUE)
    + (IF h.waku # 0 /\ 1 <= h.waku /\ h.waku <= 6 THEN WAKU_POINTS ELSE 0)

\* calculate_des_score.calculate_race_style_score: 枠番 up to 3, or 6 and
\* above, earns the points.
cds_calculate_race_style_score(h, race_info) ==
    StylePoints(h, TRUE)
    + (IF h.waku # 0 /\ (h.waku <= 3 \/ h.waku >= 6) THEN WAKU_POINTS ELSE 0)

\* The thresholds of 信頼度.
CONFIDENCE_HIGH == 75
CONFIDENCE_MID == 65
CONFIDENCE_LOW == 50

\* The dict calculate_des_score returns for four sub-scores; 信頼度 高 / 中 /
\* 低 / 極低 is written "high", "mid", "low", "very_low".
DesRecord(a_score, b_score, c_score, d_score) ==
    LET total == a_score + b_score + c_score + d_score
    IN  [A |-> a_score, B |-> b_score, C |-> c_score, D |-> d_score,
         total |-> total,
         confidence |-> IF total >= CONFIDENCE_HIGH THEN "high"
                        ELSE IF total >= CONFIDENCE_MID THEN "mid"
                        ELSE IF total >= CONFIDENCE_LOW THEN "low"
                        ELSE "very_low"]

\* calculate_des.calculate_des_score
cd_calculate_des_score(h, race_info) ==
    DesRecord(cd_calculate_past_performance_score(h, race_info),
              cd_calculate_pedigree_score(h, race_info),
              cd_calculate_jockey_trainer_score(h, race_info),
              cd_calculate_race_style_score(h, race_info))

\* calculate_des_score.calculate_des_score
cds_calculate_des_score(h, race_info) ==
    DesRecord(cds_calculate_past_performance_score(h, race_info),
              cds_calculate_pedigree_score(h, race_info),
              cds_calculate_jockey_trainer_score(h, race_info),
              cds_calculate_race_style_score(h, race_info))

InitDes ==
    /\ IdleNewScore
    /\ IdleDesMain
    /\ horse \in HorseInputs
    /\ des_score = NoDes
    /\ des_score_v1 = NoDes
    /\ past_races = <<>>
    /\ running_style = "none"
    /\ list_changes = {}
    /\ pace_horses = <<>>
    /\ predicted_pace = "none"
    /\ report_pace = "none"

\* calculate_des.main, for one horse: des_score = calculate_des_score(horse, race)
CalculateDesScore ==
    /\ des_score = NoDes
    /\ des_score' = cd_calculate_des_score(horse, TargetRace)
    /\ UNCHANGED <<horse, des_score_v1, styleVars, paceVars, newScoreVars, desMainVars, coreVars, batchVars,
                   stageVars>>

\* calculate_des_score.main, for one horse
CalculateDesScoreV1 ==
    /\ des_score_v1 = NoDes
    /\ des_score_v1' = cds_calculate_des_score(horse, TargetRace)
    /\ UNCHANGED <<horse, des_score, styleVars, paceVars, newScoreVars, desMainVars, coreVars, batchVars,
                   stageVars>>

NextDes ==
    \/ CalculateDesScore
    \/ CalculateDesScoreV1

\* One horse under scoring, every other component at rest.
StartDes ==
    InitDes /\ IdleLedger /\ IdleRace /\ IdleSelect /\ IdleInvest /\ IdleRecon
        /\ IdleBatch /\ IdleStage

SpecDes == StartDes /\ [][NextDes]_vars

(***************************************************************************)
(* Claims about the horse scores (checked under SpecDes)                   *)
(***************************************************************************)
\* C11 (as claimed): for every horse whose past-race list is empty,
\* calculate_des_score returns 0 for each of the four sub-scores and the
\* confidence label very low, whatever the jockey and the post position are.
C11_NoPastAllZero ==
    horse.past_races = <<>> =>
        /\ des_score # NoDes =>
               /\ des_score.A = 0 /\ des_score.B = 0
               /\ des_score.C = 0 /\ des_score.D = 0
               /\ des_score.confidence = "very_low"
        /\ des_score_v1 # NoDes =>
               /\ des_score_v1.A = 0 /\ des_score_v1.B = 0
               /\ des_score_v1.C = 0 /\ des_score_v1.D = 0
               /\ des_score_v1.confidence = "very_low"

\* C11 (amended): for every horse whose past-race list is empty, the
\* sub-scores A, B and C are 0 and the confidence label is very low, whatever
\* the jockey and the post position are; D is 3 when the post position earns
\* the frame points (枠番 1 to 6 in calculate_des.py, 枠番 up to 3 or 6 and
\* above in calculate_des_score.py) and 0 otherwise, so the total is 0 or 3.
C11_NoPastOnlyFramePoints ==
    horse.past_races = <<>> =>
        /\ des_score # NoDes =>
               /\ des_score.A = 0 /\ des_score.B = 0 /\ des_score.C = 0
               /\ des_score.D = (IF horse.waku \in 1..6 THEN 3 ELSE 0)
               /\ des_score.total = des_score.D
               /\ des_score.confidence = "very_low"
        /\ des_score_v1 # NoDes =>
               /\ des_score_v1.A = 0 /\ des_score_v1.B = 0 /\ des_score_v1.C = 0
               /\ des_score_v1.D =
                      (IF horse.waku \in (1..3) \cup (6..8) THEN 3 ELSE 0)
               /\ des_score_v1.total = des_score_v1.D
               /\ des_score_v1.confidence = "very_low"

\* A horse without past races in frame 2, scored by both revisions: D is 3.
C11_Witness ==
    /\ horse.past_races = <<>>
    /\ horse.waku = 2
    /\ horse.jockey = "J1"
    /\ des_score # NoDes
    /\ des_score_v1 # NoDes
    /\ des_score.D = 3
    /\ des_score_v1.D = 3
    /\ des_score.confidence = "very_low"

\* C12: the total returned by calculate_des_score equals A + B + C + D, and
\* the sub-scores never exceed their caps: A <= 40, B <= 30, C <= 20,
\* D <= 10, so the total never exceeds 100.
C12_TotalIsSumWithinCaps ==
    /\ des_score # NoDes =>
           /\ des_score.total = des_score.A + des_score.B + des_score.C + des_score.D
           /\ des_score.A <= 40 /\ des_score.B <= 30
           /\ des_score.C <= 20 /\ des_score.D <= 10
           /\ des_score.total <= 100
    /\ des_score_v1 # NoDes =>
           /\ des_score_v1.total = des_score_v1.A + des_score_v1.B
                                       + des_score_v1.C + des_score_v1.D
           /\ des_score_v1.A <= 40 /\ des_score_v1.B <= 30
           /\ des_score_v1.C <= 20 /\ des_score_v1.D <= 10
           /\ des_score_v1.total <= 100

\* A horse that reaches every cap at once, scored by both revisions.
C12_Witness ==
    /\ des_score.A = 40 /\ des_score.B = 30 /\ des_score.C = 20 /\ des_score.D = 10
    /\ des_score.total = 100
    /\ des_score_v1.total = 100

(***************************************************************************)
(* Running style: scripts/calculate_des.py, estimate_running_style         *)
(*                                                                         *)
(* past_races lists, most recent first, the first position of each past    *)
(* race's コーナー通過順, 0 standing for a race without one.  The labels    *)
(* 逃げ / 先行 / 差し / 不明 are written "nige", "senkou", "sashi",         *)
(* "unknown".                                                              *)
(***************************************************************************)
\* Bound: the number of past races handed to estimate_running_style.
MaxStyleRaces == 6

\* The number of most recent races estimate_running_style looks at.
RECENT_RACES == 5

\* The recent races calculate_race_style_score looks at.
RECENT_RACES_SHORT == 3

\* The last first-corner position counted as 逃げ, and as 先行.
FRONT_MAX == 2
MID_MAX == 5

\* First positions of the model: none, front, mid, closer.
FirstPositions == {0, 1, 4, 9}

StyleInputs == SeqsUpTo(FirstPositions, MaxStyleRaces)

\* estimate_running_style over past_races[:n].
StyleOfRecent(past, n) ==
    LET recent == Take(past, n)
        front_count == Len(SelectSeq(recent, LAMBDA q : q # 0 /\ q <= FRONT_MAX))
        mid_count ==
            Len(SelectSeq(recent, LAMBDA q : q # 0 /\ q > FRONT_MAX /\ q <= MID_MAX))
        closer_count == Len(SelectSeq(recent, LAMBDA q : q # 0 /\ q > MID_MAX))
        max_count == Max2(front_count, Max2(mid_count, closer_count))
    IN  IF past = <<>> THEN "unknown"
        ELSE IF max_count = 0 THEN "unknown"
        ELSE IF front_count = max_count THEN "nige"
        ELSE IF mid_count = max_count THEN "senkou"
        ELSE "sashi"

\* estimate_running_style with the buckets <= 3, <= 6, <= 10 and > 10 and
\* the four labels.
estimate_running_style_FourBuckets(past) ==
    LET recent == SelectSeq(Take(past, RECENT_RACES), LAMBDA q : q # 0)
        Votes(lo, hi) == Len(SelectSeq(recent, LAMBDA q : q > lo /\ q <= hi))
        front_count == Votes(0, 3)
        mid_count == Votes(3, 6)
        closer_count == Votes(6, 10)
        last_count == Len(SelectSeq(recent, LAMBDA q : q > 10))
        max_count == Max2(Max2(front_count, mid_count), Max2(closer_count, last_count))
    IN  IF max_count = 0 THEN "unknown"
        ELSE IF front_count = max_count THEN "nige"
        ELSE IF mid_count = max_count THEN "senkou"
        ELSE IF closer_count = max_count THEN "sashi"
        ELSE "oikomi"

\* estimate_running_style with ties going to the closer style first.
estimate_running_style_CloserFirst(past) ==
    LET recent == SelectSeq(Take(past, RECENT_RACES), LAMBDA q : q # 0)
        front_count == Len(SelectSeq(recent, LAMBDA q : q <= FRONT_MAX))
        mid_count == Len(SelectSeq(recent, LAMBDA q : q > FRONT_MAX /\ q <= MID_MAX))
        closer_count == Len(SelectSeq(recent, LAMBDA q : q > MID_MAX))
        max_count == Max2(front_count, Max2(mid_count, closer_count))
    IN  IF max_count = 0 THEN "unknown"
        ELSE IF closer_count = max_count THEN "sashi"
        ELSE IF mid_count = max_count THEN "senkou"
        ELSE "nige"

\* estimate_running_style looking at the three most recent races only.
estimate_running_style_RecentThree(past) ==
    StyleOfRecent(past, RECENT_RACES_SHORT)

\* estimate_running_style
estimate_running_style(past) ==
    StyleOfRecent(past, RECENT_RACES)

InitStyle ==
    /\ IdleNewScore
    /\ IdleDesMain
    /\ past_races \in StyleInputs
    /\ running_style = "none"
    /\ list_changes = {}
    /\ horse = NoHorse
    /\ des_score = NoDes
    /\ des_score_v1 = NoDes
    /\ pace_horses = <<>>
    /\ predicted_pace = "none"
    /\ report_pace = "none"

\* calculate_des.main: horse['推定脚質'] = estimate_running_style(past_races)
EstimateRunningStyle ==
    /\ running_style = "none"
    /\ running_style' = estimate_running_style(past_races)
    /\ UNCHANGED <<past_races, list_changes, desVars, paceVars, newScoreVars, desMainVars, coreVars, batchVars,
                   stageVars>>

\* The same horse handed over with two neighbours among its five most recent
\* races exchanged.
ReorderRecent ==
    /\ running_style # "none"
    /\ \E i \in 1..(Min2(Len(past_races), RECENT_RACES) - 1) :
           /\ past_races[i] # past_races[i + 1]
           /\ past_races' = [past_races EXCEPT ![i] = past_races[i + 1],
                                               ![i + 1] = past_races[i]]
    /\ list_changes' = list_changes \cup {"reordered"}
    /\ UNCHANGED <<running_style, desVars, paceVars, newScoreVars, desMainVars, coreVars, batchVars, stageVars>>

\* The same horse handed over with another older race after the five most
\* recent ones: one replaced, one more, or one fewer.
ChangeOlder ==
    /\ running_style # "none"
    /\ Len(past_races) >= RECENT_RACES
    /\ \/ \E i \in (RECENT_RACES + 1)..Len(past_races), q \in FirstPositions :
              /\ q # past_races[i]
              /\ past_races' = [past_races EXCEPT ![i] = q]
       \/ \E q \in FirstPositions :
              /\ Len(past_races) < MaxStyleRaces
              /\ past_races' = Append(past_races, q)
       \/ /\ Len(past_races) > RECENT_RACES
          /\ past_races' = Take(past_races, Len(past_races) - 1)
    /\ list_changes' = list_changes \cup {"older"}
    /\ UNCHANGED <<running_style, desVars, paceVars, newScoreVars, desMainVars, coreVars, batchVars, stageVars>>

NextStyle ==
    \/ EstimateRunningStyle
    \/ ReorderRecent
    \/ ChangeOlder

\* One past-race list under classification, every other component at rest.
StartStyle ==
    InitStyle /\ IdleLedger /\ IdleRace /\ IdleSelect /\ IdleInvest /\ IdleRecon
        /\ IdleBatch /\ IdleStage

SpecStyle == StartStyle /\ [][NextStyle]_vars

\* C13: estimate_running_style returns the same label for any two past-race
\* lists that have the same five most recent races, in whatever order those
\* five appear and whatever older races follow them: the label computed for
\* a list is still the label of every list obtained from it by reordering the
\* five most recent races and by changing the races after them.
C13_StyleStableUnderReordering ==
    running_style # "none" => running_style = estimate_running_style(past_races)

\* A list classified 差し whose five most recent races were reordered so that
\* a front-running race now comes first, and whose older race was changed to
\* a front-running one.
C13_Witness ==
    /\ running_style = "sashi"
    /\ list_changes = {"reordered", "older"}
    /\ Len(past_races) = 6
    /\ past_races[1] = 1
    /\ past_races[6] = 1

(***************************************************************************)
(* Pace: scripts/add_pace_info.py, analyze_pace_from_horses, and           *)
(* scripts/generate_reports.py, RaceAnalyzer.analyze_pace                  *)
(*                                                                         *)
(* pace_horses lists the 推定脚質 of each horse of a race: "nige", "senkou",*)
(* "sashi", "unknown" (不明), or "absent" for a horse without the key.      *)
(* ハイペース / ミドルペース / スローペース are written "high", "middle",     *)
(* "slow".                                                                 *)
(***************************************************************************)
\* Bound: the number of horses of a race handed to the pace classifiers.
MaxPaceHorses == 5

\* The number of 逃げ horses from which the pace is high.
NIGE_HIGH == 3

\* The number of 逃げ horses up to which the pace is slow.
NIGE_SLOW == 1

RunStyles == {"nige", "senkou", "sashi", "unknown", "absent"}

PaceInputs == SeqsUpTo(RunStyles, MaxPaceHorses)

\* Counter(runstyles).get(style, 0)
CountStyle(runstyles, style) == Len(SelectSeq(runstyles, LAMBDA x : x = style))

\* The three-way decision both classifiers end with;
\* (nige_count + senkou_count) / total >= 0.5 is compared without division.
PaceDecision(nige_count, senkou_count, total) ==
    IF nige_count >= NIGE_HIGH \/ 2 * (nige_count + senkou_count) >= total
    THEN "high"
    ELSE IF nige_count <= NIGE_SLOW THEN "slow"
    ELSE "middle"

\* add_pace_info.analyze_pace_from_horses
analyze_pace_from_horses(horses) ==
    LET runstyles == SelectSeq(horses, LAMBDA x : x # "absent")
        total == Len(runstyles)
    IN  IF runstyles = <<>> THEN "middle"
        ELSE PaceDecision(CountStyle(runstyles, "nige"),
                          CountStyle(runstyles, "senkou"), total)

\* RaceAnalyzer.analyze_pace with total = len(runstyles).
analyze_pace_TotalAllHorses(horses) ==
    LET total == Len(horses)
    IN  IF total = 0 THEN "middle"
        ELSE PaceDecision(CountStyle(horses, "nige"), CountStyle(horses, "senkou"),
                          total)

\* generate_reports.RaceAnalyzer.analyze_pace: a horse without the key counts
\* as 不明, and 不明 horses are left out of total.
analyze_pace(horses) ==
    LET runstyles == [i \in 1..Len(horses) |->
                         IF horses[i] = "absent" THEN "unknown" ELSE horses[i]]
        total == Len(SelectSeq(runstyles, LAMBDA x : x # "unknown"))
    IN  IF total = 0 THEN "middle"
        ELSE PaceDecision(CountStyle(runstyles, "nige"),
                          CountStyle(runstyles, "senkou"), total)

InitPace ==
    /\ IdleNewScore
    /\ IdleDesMain
    /\ pace_horses \in PaceInputs
    /\ predicted_pace = "none"
    /\ report_pace = "none"
    /\ horse = NoHorse
    /\ des_score = NoDes
    /\ des_score_v1 = NoDes
    /\ past_races = <<>>
    /\ running_style = "none"
    /\ list_changes = {}

\* add_pace_info_to_results: predicted_pace = analyze_pace_from_horses(horses)
AnalyzePaceFromHorses ==
    /\ predicted_pace = "none"
    /\ predicted_pace' = analyze_pace_from_horses(pace_horses)
    /\ UNCHANGED <<pace_horses, report_pace, desVars, styleVars, newScoreVars, desMainVars, coreVars, batchVars,
                   stageVars>>

\* generate_reports: RaceAnalyzer.analyze_pace(horses)
AnalyzePace ==
    /\ report_pace = "none"
    /\ report_pace' = analyze_pace(pace_horses)
    /\ UNCHANGED <<pace_horses, predicted_pace, desVars, styleVars, newScoreVars, desMainVars, coreVars,
                   batchVars, stageVars>>

NextPace ==
    \/ AnalyzePaceFromHorses
    \/ AnalyzePace

\* One race under pace classification, every other component at rest.
StartPace ==
    InitPace /\ IdleLedger /\ IdleRace /\ IdleSelect /\ IdleInvest /\ IdleRecon
        /\ IdleBatch /\ IdleStage

SpecPace == StartPace /\ [][NextPace]_vars

\* The number of horses of the race whose style is in the set styles.
HorsesWith(styles) == Cardinality({i \in 1..Len(pace_horses) : pace_horses[i] \in styles})

\* The rule of C14 for a given total, as a relation between the counts and
\* the label.
FollowsPaceRule(pace, total) ==
    LET nige == HorsesWith({"nige"})
        pressers == HorsesWith({"senkou"})
        fast == nige >= 3 \/ 2 * (nige + pressers) >= total
    IN  /\ pace = "high" <=> fast
        /\ pace = "slow" <=> (~fast /\ nige <= 1)
        /\ pace = "middle" <=> (~fast /\ nige > 1)

C29_SamePaceLabel ==
    (predicted_pace # "none" /\ report_pace # "none") => predicted_pace = report_pace

(***************************************************************************)
(* Fetch loops: scripts/fetch_race_results.py, fetch_race_results, and     *)
(* scripts/fetch_past_races.py, main                                       *)
(*                                                                         *)
(* A race of the loop is [race_id, fate]: fate is what the one HTTP        *)
(* request for the race meets: "hit" and "miss" are pages fetched and      *)
(* parsed (the predicted combination being the official one or not),       *)
(* "timeout" and "bad_status" are requests.get timing out and              *)
(* raise_for_status raising.  結果取得不可 is written "unavailable", 的中    *)
(* "hit", 不的中 "miss".                                                    *)
(***************************************************************************)
\* Bound: the number of races of a fetch loop.
MaxBatchRaces == 3

\* The payout of the official combination of the model.
BATCH_PAYOUT == 5000

RaceIds == 11..(10 + MaxBatchRaces)
Fates == {"hit", "miss", "timeout", "bad_status"}
FailedFates == {"timeout", "bad_status"}

BatchInputs ==
    UNION {{[i \in 1..n |-> [race_id |-> ids[i], fate |-> fates[i]]] :
               ids \in DistinctSeqs(RaceIds, n), fates \in [1..n -> Fates]} :
           n \in 0..MaxBatchRaces}

\* The requests fetch_single_race_result and http_get issue for one race,
\* three of them for a race whose request fails.
RequestsFor_Retried(r) ==
    IF r.fate \in FailedFates THEN <<r.race_id, r.race_id, r.race_id>>
    ELSE <<r.race_id>>

\* The requests fetch_single_race_result and http_get issue for one race:
\* one requests.get, whatever becomes of it.
RequestsFor(r) == <<r.race_id>>

\* fetch_single_race_result(race_id, ymd) is None
FetchFailed(r) == r.fate \in FailedFates

\* The loop body of fetch_race_results that leaves a race out of results when
\* its result could not be fetched.
AppendResult_SkipFailed(results, r, investment) ==
    IF FetchFailed(r) THEN results
    ELSE Append(results,
                [race_id |-> r.race_id,
                 status |-> r.fate,
                 hit |-> r.fate = "hit",
                 investment |-> investment,
                 return |-> IF r.fate = "hit" THEN BATCH_PAYOUT ELSE 0,
                 profit |-> (IF r.fate = "hit" THEN BATCH_PAYOUT ELSE 0) - investment])

\* The loop body of fetch_race_results: results.append({...}) on both paths.
AppendResult(results, r, investment) ==
    IF FetchFailed(r)
    THEN Append(results,
                [race_id |-> r.race_id,
                 status |-> "unavailable",
                 hit |-> FALSE,
                 investment |-> investment,
                 return |-> 0,
                 profit |-> 0 - investment])
    ELSE Append(results,
                [race_id |-> r.race_id,
                 status |-> r.fate,
                 hit |-> r.fate = "hit",
                 investment |-> investment,
                 return |-> IF r.fate = "hit" THEN BATCH_PAYOUT ELSE 0,
                 profit |-> (IF r.fate = "hit" THEN BATCH_PAYOUT ELSE 0) - investment])

\* investment = race.get('investment', 2400): the stakes found in the
\* selection, the second one also being that of a race without the key.
BatchStakes == {0, DEFAULT_INVESTMENT_FETCH}

\* round(num / den * 100, 1) in tenths of a percent, a half going to the even
\* tenth as round() does (156.25 gives 156.2); 0 when den is 0.
RateTenths(num, den) ==
    IF den > 0
    THEN LET q == (1000 * num) \div den
             rem == (1000 * num) % den
         IN  IF 2 * rem > den THEN q + 1
             ELSE IF 2 * rem = den THEN q + (q % 2)
             ELSE q
    ELSE 0

\* The summary fetch_race_results computes after its loop, all races in the
\* totals but the ones that are neither hit nor miss.
ResultsSummary_AvailableOnly(results) ==
    LET CountOf(st) == Cardinality({i \in 1..Len(results) : results[i].status = st})
        fetched == SelectSeq(results, LAMBDA e : e.status # "unavailable")
        total_investment == SumSeq([i \in 1..Len(fetched) |-> fetched[i].investment])
        total_return == SumSeq([i \in 1..Len(fetched) |-> fetched[i].return])
    IN  [total_races |-> Len(results),
         hit_count |-> CountOf("hit"),
         miss_count |-> CountOf("miss"),
         unavailable_count |-> CountOf("unavailable"),
         total_investment |-> total_investment,
         total_return |-> total_return,
         total_profit |-> total_return - total_investment,
         hit_rate |-> RateTenths(CountOf("hit"), Len(results)),
         recovery_rate |-> RateTenths(total_return, total_investment)]

\* The summary fetch_race_results computes after its loop.
ResultsSummary(results) ==
    LET CountOf(st) == Cardinality({i \in 1..Len(results) : results[i].status = st})
        total_investment == SumSeq([i \in 1..Len(results) |-> results[i].investment])
        total_return == SumSeq([i \in 1..Len(results) |-> results[i].return])
    IN  [total_races |-> Len(results),
         hit_count |-> CountOf("hit"),
         miss_count |-> CountOf("miss"),
         unavailable_count |-> CountOf("unavailable"),
         total_investment |-> total_investment,
         total_return |-> total_return,
         total_profit |-> total_return - total_investment,
         hit_rate |-> RateTenths(CountOf("hit"), Len(results)),
         recovery_rate |-> RateTenths(total_return, total_investment)]

InitBatch ==
    /\ batch_script \in {"fetch_race_results", "fetch_past_races"}
    /\ batch_races \in BatchInputs
    /\ batch_idx = 0
    /\ batch_out = <<>>
    /\ http_log = <<>>
    /\ sleeps = 0
    /\ batch_file = NoBatchFile

Running(script) == batch_script = script /\ batch_file.exit_code = -1

\* fetch_race_results: if not selected_races: return None; __main__ exits 1.
FetchRaceResultsNoSelection ==
    /\ Running("fetch_race_results")
    /\ batch_races = <<>>
    /\ batch_file' = [batch_file EXCEPT !.exit_code = 1]
    /\ UNCHANGED <<batch_script, batch_races, batch_idx, batch_out, http_log, sleeps,
                   coreVars, scoreVars, stageVars>>

\* fetch_race_results: one pass of the loop over selected_races.  A fetched
\* race is followed by time.sleep(1); the unavailable path ends in continue.
FetchRaceResultsStep ==
    /\ Running("fetch_race_results")
    /\ batch_idx < Len(batch_races)
    /\ LET r == batch_races[batch_idx + 1]
       IN  /\ http_log' = http_log \o RequestsFor(r)
           /\ \E investment \in BatchStakes :
                  batch_out' = AppendResult(batch_out, r, investment)
           /\ sleeps' = IF FetchFailed(r) THEN sleeps ELSE sleeps + 1
    /\ batch_idx' = batch_idx + 1
    /\ UNCHANGED <<batch_script, batch_races, batch_file, coreVars, scoreVars,
                   stageVars>>

\* fetch_race_results: after the loop, race_results_{ymd}.json is written
\* and __main__ exits 0.
FetchRaceResultsWrite ==
    /\ Running("fetch_race_results")
    /\ batch_races # <<>>
    /\ batch_idx = Len(batch_races)
    /\ batch_file' = [written |-> TRUE, content |-> batch_out,
                      summary |-> ResultsSummary(batch_out), exit_code |-> 0]
    /\ UNCHANGED <<batch_script, batch_races, batch_idx, batch_out, http_log, sleeps,
                   coreVars, scoreVars, stageVars>>

\* fetch_past_races.main: one pass of the loop over race_data["races"].  When
\* http_get returns None the race is left as it was (continue); otherwise
\* past_races is set for its horses and time.sleep(1) follows.
FetchPastRacesStep ==
    /\ Running("fetch_past_races")
    /\ batch_idx < Len(batch_races)
    /\ LET r == batch_races[batch_idx + 1]
       IN  /\ http_log' = http_log \o RequestsFor(r)
           /\ batch_out' = Append(batch_out,
                                  [race_id |-> r.race_id,
                                   past_races |-> ~FetchFailed(r)])
           /\ sleeps' = IF FetchFailed(r) THEN sleeps ELSE sleeps + 1
    /\ batch_idx' = batch_idx + 1
    /\ UNCHANGED <<batch_script, batch_races, batch_file, coreVars, scoreVars,
                   stageVars>>

\* fetch_past_races.main: after the loop race_data is written back.
FetchPastRacesWrite ==
    /\ Running("fetch_past_races")
    /\ batch_idx = Len(batch_races)
    /\ batch_file' = [written |-> TRUE, content |-> batch_out,
                      summary |-> NoSummary, exit_code |-> 0]
    /\ UNCHANGED <<batch_script, batch_races, batch_idx, batch_out, http_log, sleeps,
                   coreVars, scoreVars, stageVars>>

NextBatch ==
    \/ FetchRaceResultsNoSelection
    \/ FetchRaceResultsStep
    \/ FetchRaceResultsWrite
    \/ FetchPastRacesStep
    \/ FetchPastRacesWrite

\* One fetch loop, every other component at rest.
StartBatch ==
    InitBatch /\ IdleLedger /\ IdleRace /\ IdleSelect /\ IdleInvest /\ IdleRecon
        /\ IdleScore /\ IdleStage

SpecBatch == StartBatch /\ [][NextBatch]_vars

\* C15: when fetching the result of one selected race fails,
\* fetch_race_results records that race with the status 結果取得不可,
\* hit = false and return = 0, and continues with the remaining races: the
\* results hold exactly one entry per race the loop has passed, in the order
\* of the selection, and the written output one entry per selected race.
C15_UnavailableRecordedAndLoopContinues ==
    batch_script = "fetch_race_results" =>
        /\ Len(batch_out) = batch_idx
        /\ \A i \in 1..Len(batch_out) :
               /\ batch_out[i].race_id = batch_races[i].race_id
               /\ batch_races[i].fate \in FailedFates =>
                      /\ batch_out[i].status = "unavailable"
                      /\ batch_out[i].hit = FALSE
                      /\ batch_out[i].return = 0
               /\ batch_races[i].fate \notin FailedFates =>
                      batch_out[i].status # "unavailable"
        /\ batch_file.written =>
               /\ Len(batch_file.content) = Len(batch_races)
               /\ batch_file.content = batch_out

\* An output written for three races of which the second could not be
\* fetched and the third, after it, was a hit.
C15_Witness ==
    /\ batch_script = "fetch_race_results"
    /\ batch_file.written
    /\ Len(batch_races) = 3
    /\ batch_races[1].race_id > batch_races[2].race_id
    /\ batch_races[2].fate = "timeout"
    /\ batch_file.content[2].status = "unavailable"
    /\ batch_file.content[3].status = "hit"

\* The number of requests issued for race id.
RequestCount(id) == Cardinality({k \in 1..Len(http_log) : http_log[k] = id})

\* C20 (as claimed): a failed HTTP fetch is retried a fixed number of times
\* with a fixed sleep between attempts, and only after those retries is the
\* race marked unavailable: a race marked unavailable or skipped has had more
\* than one request, and a sleep was made between them.
C20_RetriedBeforeUnavailable ==
    \A i \in 1..batch_idx :
        batch_races[i].fate \in FailedFates =>
            /\ RequestCount(batch_races[i].race_id) > 1
            /\ sleeps >= RequestCount(batch_races[i].race_id) - 1

\* C20 (amended): a failed HTTP fetch (timeout or non-2xx status) is not
\* retried: fetch_single_race_result and http_get issue exactly one request
\* per race, the race is marked unavailable (fetch_race_results) or left
\* without past races (fetch_past_races) as soon as that request fails, and
\* the only sleep is the one second after each race that was fetched.
C20_OneRequestThenUnavailable ==
    /\ Len(http_log) = batch_idx
    /\ \A i \in 1..Len(batch_races) :
           RequestCount(batch_races[i].race_id) = (IF i <= batch_idx THEN 1 ELSE 0)
    /\ sleeps = Cardinality({i \in 1..batch_idx : batch_races[i].fate \notin FailedFates})
    /\ \A i \in 1..batch_idx :
           batch_races[i].fate \in FailedFates =>
               IF batch_script = "fetch_race_results"
               THEN batch_out[i].status = "unavailable"
               ELSE ~batch_out[i].past_races

\* A loop that has passed two races whose only requests failed: two requests
\* in all, no sleep, both races marked.
C20_Witness ==
    /\ batch_idx = 2
    /\ batch_races[1].fate = "timeout"
    /\ batch_races[2].fate = "bad_status"
    /\ Len(http_log) = 2
    /\ sleeps = 0
    /\ Len(batch_out) = 2

\* The sum of one field of the entries written to race_results_{ymd}.json.
WrittenInvestment ==
    SumSeq([i \in 1..Len(batch_file.content) |-> batch_file.content[i].investment])
WrittenReturn ==
    SumSeq([i \in 1..Len(batch_file.content) |-> batch_file.content[i].return])
WrittenProfit ==
    SumSeq([i \in 1..Len(batch_file.content) |-> batch_file.content[i].profit])

\* C28: in the summary written by fetch_race_results, hit_count + miss_count
\* + unavailable_count = total_races, total_investment and total_return are
\* the sums over all result entries, the unavailable races included,
\* total_profit = total_return - total_investment = the sum of the per-race
\* profits, and the recovery rate is 0 when total_investment is 0.
C28_SummaryTotals ==
    (batch_script = "fetch_race_results" /\ batch_file.written) =>
        LET s == batch_file.summary
        IN  /\ s.total_races = Len(batch_file.content)
            /\ s.hit_count + s.miss_count + s.unavailable_count = s.total_races
            /\ s.total_investment = WrittenInvestment
            /\ s.total_return = WrittenReturn
            /\ s.total_profit = s.total_return - s.total_investment
            /\ s.total_profit = WrittenProfit
            /\ s.total_investment = 0 => s.recovery_rate = 0

\* A day of three races written out: a hit on which nothing was staked, a
\* miss and an unavailable race with a stake each, so that the unavailable
\* race weighs on the totals.
C28_Witness ==
    /\ batch_script = "fetch_race_results"
    /\ batch_file.written
    /\ Len(batch_file.content) = 3
    /\ \E i, j, k \in 1..3 :
           /\ batch_file.content[i].status = "hit"
           /\ batch_file.content[i].investment = 0
           /\ batch_file.content[j].status = "miss"
           /\ batch_file.content[k].status = "unavailable"
           /\ batch_file.content[k].investment = DEFAULT_INVESTMENT_FETCH
           /\ batch_file.content[j].investment = DEFAULT_INVESTMENT_FETCH
    /\ batch_file.summary.total_investment = 2 * DEFAULT_INVESTMENT_FETCH
    /\ batch_file.summary.total_profit = BATCH_PAYOUT - 2 * DEFAULT_INVESTMENT_FETCH
    /\ batch_file.summary.unavailable_count = 1

(***************************************************************************)
(* Stage scripts and their files: scripts/daily_select.py,                 *)
(* fetch_past_races.py, calculate_des.py, calculate_new_score.py,          *)
(* select_predictions.py, generate_results_summary.py                      *)
(*                                                                         *)
(* Each script is run at most once for the date, in any order, and the     *)
(* runs of the scripts that rewrite race_data_{ymd}.json may overlap: such *)
(* a run is two steps, the read and the write.  A file is [exists, fields, *)
(* writers, race_ids]: the kinds of data it holds, the scripts that wrote  *)
(* it, oldest first, and the race ids it lists.  A race id is written      *)
(* venue code * 100 + race number.                                         *)
(***************************************************************************)
Files ==
    {"today_jobs", "race_data", "race_data_bak", "race_data_des_bak",
     "final_predictions", "latest_predictions", "race_results", "results_summary"}

Stages ==
    {"daily_select", "fetch_past_races", "calculate_des", "calculate_new_score",
     "select_predictions", "generate_results_summary"}

\* The scripts that read race_data_{ymd}.json, change it and write it back.
RewritingStages == {"fetch_past_races", "calculate_des", "calculate_new_score"}

NoFile == [exists |-> FALSE, fields |-> {}, writers |-> <<>>, race_ids |-> <<>>]

\* The file a script writes: what it holds, the script added to its writers.
Written(old, stage, fields, ids) ==
    [exists |-> TRUE, fields |-> fields, writers |-> Append(old.writers, stage),
     race_ids |-> ids]

\* holidays_2026 of is_weekend_or_holiday
holidays_2026 ==
    {20260101, 20260113, 20260211, 20260223, 20260320, 20260429, 20260503,
     20260504, 20260505, 20260720, 20260811, 20260921, 20260923, 20261012,
     20261103, 20261123}

\* datetime.strptime(ymd, "%Y%m%d").weekday(): Monday is 0, Sunday is 6.
weekday(ymd) ==
    LET y0 == ymd \div 10000
        m == (ymd \div 100) % 100
        d == ymd % 100
        y == IF m < 3 THEN y0 - 1 ELSE y0
        t == <<0, 3, 2, 5, 0, 3, 5, 1, 4, 6, 2, 4>>
        sunday0 == (y + (y \div 4) - (y \div 100) + (y \div 400) + t[m] + d) % 7
    IN  (sunday0 + 6) % 7

SATURDAY == 5

\* is_weekend_or_holiday
is_weekend_or_holiday(ymd) ==
    IF weekday(ymd) >= SATURDAY THEN TRUE ELSE ymd \in holidays_2026

\* get_venue_info: venue codes up to 10 are JRA, the others NAR.
LAST_JRA_VENUE == 10
IsNar(race_id) == race_id \div 100 > LAST_JRA_VENUE

\* The dates daily_select is run on: Monday, Saturday, Sunday, a listed
\* holiday on a Tuesday and on a Wednesday, Thursday, a listed holiday on a
\* Sunday and on a Monday.
Dates ==
    {20260105, 20260110, 20260111, 20260113, 20260211, 20260212, 20260503,
     20260720}

\* What fetch_jra_races and fetch_nar_races return for the date; empty when
\* no meeting is held and when the request failed.
JraListings == {<<>>, <<501, 502>>, <<601>>}
NarListings == {<<>>, <<4401>>, <<4401, 4501>>}

DiscoveryInputs == [ymd : Dates, jra : JraListings, nar : NarListings]

\* all_race_ids of daily_select.main
all_race_ids(d) ==
    IF is_weekend_or_holiday(d.ymd)
    THEN IF d.jra = <<>> THEN d.jra \o d.nar ELSE d.jra
    ELSE d.jra \o d.nar

\* The files after daily_select.main: today_jobs.latest.json always, and with
\* no race id latest_predictions.json and final_predictions_{ymd}.json in
\* the no_race state.
AfterDailySelect(files, d) ==
    LET ids == all_race_ids(d)
        jobs == [files EXCEPT !["today_jobs"] =
                     Written(@, "daily_select", {"race_ids"}, ids)]
    IN  IF ids = <<>>
        THEN [jobs EXCEPT
                 !["latest_predictions"] = Written(@, "daily_select", {"no_race"}, <<>>),
                 !["final_predictions"] = Written(@, "daily_select", {"no_race"}, <<>>)]
        ELSE jobs

\* daily_select.main
DailySelect ==
    /\ pc["daily_select"] = "idle"
    /\ fs' = AfterDailySelect(fs, discovery)
    /\ pc' = [pc EXCEPT !["daily_select"] = "done"]
    /\ exit_code' = [exit_code EXCEPT !["daily_select"] = 0]
    /\ UNCHANGED <<local, discovery, coreVars, scoreVars, batchVars>>

\* The dated files a script needs.
InputFiles(stage) ==
    IF stage \in RewritingStages \/ stage = "select_predictions" THEN {"race_data"}
    ELSE IF stage = "generate_results_summary"
         THEN {"race_results", "final_predictions"}
    ELSE {}

\* Every existence check of the script passes whatever the files are.
InputsPresent_Unchecked(stage) == TRUE

\* Path(input_file).exists() for each input of the script (open() raising
\* FileNotFoundError in calculate_new_score).
InputsPresent(stage) == \A f \in InputFiles(stage) : fs[f].exists

\* The kind of data each rewriting script adds to the horses.
FieldOf(stage) ==
    IF stage = "fetch_past_races" THEN "past_races"
    ELSE IF stage = "calculate_des" THEN "des_score"
    ELSE "new_score"

\* The backup a rewriting script makes before reading; calculate_new_score
\* makes none.
BackupOf(stage) ==
    IF stage = "fetch_past_races" THEN {"race_data_bak"}
    ELSE IF stage = "calculate_des" THEN {"race_data_des_bak"}
    ELSE {}

\* json.dump(race_data) of a script that first merged what the file holds now.
WrittenContent_Merged(stage) ==
    fs["race_data"].fields \cup local[stage] \cup {FieldOf(stage)}

\* json.dump(race_data): what the script read, with its own data added.
WrittenContent(stage) == local[stage] \cup {FieldOf(stage)}

\* A script ends with the exit code.
Ended(stage, code) ==
    /\ pc' = [pc EXCEPT ![stage] = "done"]
    /\ exit_code' = [exit_code EXCEPT ![stage] = code]

\* main of fetch_past_races, calculate_des and calculate_new_score up to
\* json.load: exit 1 when the file is missing, otherwise the backup copy and
\* the read.
LoadRaceData(stage) ==
    /\ stage \in RewritingStages
    /\ pc[stage] = "idle"
    /\ IF InputsPresent(stage)
       THEN /\ fs' = [f \in Files |->
                         IF f \in BackupOf(stage)
                         THEN [fs["race_data"] EXCEPT
                                  !.writers = Append(fs[f].writers, stage)]
                         ELSE fs[f]]
            /\ local' = [local EXCEPT ![stage] = fs["race_data"].fields]
            /\ pc' = [pc EXCEPT ![stage] = "loaded"]
            /\ UNCHANGED exit_code
       ELSE /\ Ended(stage, 1)
            /\ UNCHANGED <<fs, local>>
    /\ UNCHANGED <<discovery, coreVars, scoreVars, batchVars>>

\* main of the same scripts from the loop over the horses to json.dump.
SaveRaceData(stage) ==
    /\ stage \in RewritingStages
    /\ pc[stage] = "loaded"
    /\ fs' = [fs EXCEPT !["race_data"] =
                 Written(@, stage, WrittenContent(stage), <<>>)]
    /\ Ended(stage, 0)
    /\ UNCHANGED <<local, discovery, coreVars, scoreVars, batchVars>>

\* select_predictions.main: exit 1 without race_data and without a race to
\* select, otherwise both prediction files are written.
SelectPredictions ==
    /\ pc["select_predictions"] = "idle"
    /\ IF InputsPresent("select_predictions")
       THEN IF "entries" \in fs["race_data"].fields
            THEN /\ fs' = [fs EXCEPT
                              !["final_predictions"] =
                                  Written(@, "select_predictions", {"selected"}, <<>>),
                              !["latest_predictions"] =
                                  Written(@, "select_predictions", {"selected"}, <<>>)]
                 /\ local' = [local EXCEPT
                                 !["select_predictions"] = fs["race_data"].fields]
                 /\ Ended("select_predictions", 0)
            ELSE /\ Ended("select_predictions", 1)
                 /\ UNCHANGED <<fs, local>>
       ELSE /\ Ended("select_predictions", 1)
            /\ UNCHANGED <<fs, local>>
    /\ UNCHANGED <<discovery, coreVars, scoreVars, batchVars>>

\* generate_results_summary.main: exit 1 without the results or without the
\* predictions of the date, otherwise results_summary_{ymd}.json is written.
GenerateResultsSummary ==
    /\ pc["generate_results_summary"] = "idle"
    /\ IF InputsPresent("generate_results_summary")
       THEN /\ fs' = [fs EXCEPT !["results_summary"] =
                         Written(@, "generate_results_summary", {"summary"}, <<>>)]
            /\ Ended("generate_results_summary", 0)
       ELSE /\ Ended("generate_results_summary", 1)
            /\ UNCHANGED fs
    /\ UNCHANGED <<local, discovery, coreVars, scoreVars, batchVars>>

\* The working directory before the scripts of the date are run: race_data
\* missing, without races, or with the entries; the predictions of an
\* earlier selection present or not; the results fetched or not.
FileInputs ==
    {[f \in Files |->
         IF f = "race_data" /\ rd # "missing"
         THEN [exists |-> TRUE,
               fields |-> IF rd = "entries" THEN {"entries"} ELSE {},
               writers |-> <<>>, race_ids |-> <<>>]
         ELSE IF f \in {"final_predictions", "latest_predictions"} /\ selected
         THEN [exists |-> TRUE, fields |-> {"selected"},
               writers |-> <<"select_predictions">>, race_ids |-> <<>>]
         ELSE IF f = "race_results" /\ fetched
         THEN [exists |-> TRUE, fields |-> {"results"}, writers |-> <<>>,
               race_ids |-> <<>>]
         ELSE NoFile] :
     rd \in {"missing", "empty", "entries"},
     selected \in BOOLEAN, fetched \in BOOLEAN}

\* No script has been run.
StagesIdle ==
    /\ pc = [s \in Stages |-> "idle"]
    /\ local = [s \in Stages |-> {}]
    /\ exit_code = [s \in Stages |-> -1]

InitStages ==
    /\ fs \in {f \in FileInputs :
                  f["final_predictions"].exists => "entries" \in f["race_data"].fields}
    /\ discovery \in {d \in DiscoveryInputs :
                         /\ d.ymd = 20260105
                         /\ Len(d.jra) # 1
                         /\ Len(d.nar) <= 1}
    /\ StagesIdle

NextStages ==
    \/ DailySelect
    \/ \E stage \in RewritingStages : LoadRaceData(stage)
    \/ \E stage \in RewritingStages : SaveRaceData(stage)
    \/ SelectPredictions
    \/ GenerateResultsSummary

\* The scripts of one date, every other component at rest.
StartStages ==
    InitStages /\ IdleLedger /\ IdleRace /\ IdleSelect /\ IdleInvest /\ IdleRecon
        /\ IdleScore /\ IdleBatch

SpecStages == StartStages /\ [][NextStages]_vars

InitDaily ==
    /\ fs = [f \in Files |-> NoFile]
    /\ discovery \in DiscoveryInputs
    /\ StagesIdle

NextDaily == DailySelect

\* daily_select alone, on every date and listing of the model.
StartDaily ==
    InitDaily /\ IdleLedger /\ IdleRace /\ IdleSelect /\ IdleInvest /\ IdleRecon
        /\ IdleScore /\ IdleBatch

SpecDaily == StartDaily /\ [][NextDaily]_vars

(***************************************************************************)
(* Claims about the stage scripts                                          *)
(***************************************************************************)
\* C16 (as claimed): in every order in which the stage scripts are run for
\* a date, final_predictions_{ymd}.json and latest_predictions.json are
\* written only by the selection stage and only when race_data_{ymd}.json
\* already exists; daily_select never creates or overwrites them.
C16_PredictionsWrittenBySelectionOnly ==
    \A f \in {"final_predictions", "latest_predictions"} :
        /\ \A i \in 1..Len(fs[f].writers) : fs[f].writers[i] = "select_predictions"
        /\ fs[f].exists => fs["race_data"].exists

\* C17: when two runs that each read, modify and rewrite
\* race_data_{ymd}.json overlap, nothing serialises them and the file ends as
\* exactly what the last writer wrote: the data added by a run that wrote
\* earlier is in the file only if the last writer had it in what it read,
\* and is lost otherwise.
C17_LastWriterWins ==
    LET writers == fs["race_data"].writers
        last == writers[Len(writers)]
    IN  writers # <<>> =>
            /\ fs["race_data"].fields = local[last] \cup {FieldOf(last)}
            /\ \A i \in 1..(Len(writers) - 1) :
                   writers[i] # last =>
                       (FieldOf(writers[i]) \in fs["race_data"].fields
                            <=> FieldOf(writers[i]) \in local[last])

\* fetch_past_races and calculate_des overlapped: both read the entries,
\* fetch_past_races wrote first, calculate_des wrote last, and the past
\* races are gone from the file; the backups hold the entries only.
C17_Witness ==
    /\ fs["race_data"].writers = <<"fetch_past_races", "calculate_des">>
    /\ fs["race_data"].fields = {"entries", "des_score"}
    /\ local["fetch_past_races"] = {"entries"}
    /\ fs["race_data_bak"].fields = {"entries"}
    /\ fs["race_data_des_bak"].fields = {"entries"}
    /\ exit_code["fetch_past_races"] = 0
    /\ exit_code["calculate_des"] = 0

\* The scripts of C18.
DatedStages ==
    {"fetch_past_races", "calculate_des", "select_predictions",
     "generate_results_summary"}

\* C18: each stage script that takes its input from a dated file
\* (fetch_past_races, calculate_des, select_predictions,
\* generate_results_summary) exits with code 1 when that input file is
\* missing, without creating or modifying any file: the step in which such a
\* script starts with an input missing ends it with exit code 1 and leaves
\* every file as it was.
C18_MissingInputExitsUntouched ==
    [][\A s \in DatedStages :
           (/\ pc[s] = "idle"
            /\ pc'[s] # "idle"
            /\ \E f \in InputFiles(s) : ~fs[f].exists)
               => (/\ pc'[s] = "done"
                   /\ exit_code'[s] = 1
                   /\ fs' = fs)]_vars

\* All four scripts were run without their input and ended with exit code 1;
\* there is no race data, no backup, no summary.
C18_Witness ==
    /\ \A s \in DatedStages : exit_code[s] = 1
    /\ ~fs["race_data"].exists
    /\ ~fs["race_data_bak"].exists
    /\ ~fs["race_data_des_bak"].exists
    /\ ~fs["results_summary"].exists
    /\ ~fs["final_predictions"].exists

\* C19 (as claimed): on a Saturday, Sunday or listed holiday daily_select
\* collects JRA races only, so no NAR race id appears in race_ids of
\* today_jobs.latest.json for such a date; on a weekday both JRA and NAR are
\* collected, JRA ids first.
C19_WeekendJraOnly ==
    fs["today_jobs"].exists =>
        LET ids == fs["today_jobs"].race_ids
        IN  IF weekday(discovery.ymd) \in {5, 6} \/ discovery.ymd \in holidays_2026
            THEN \A i \in 1..Len(ids) : ~IsNar(ids[i])
            ELSE ids = discovery.jra \o discovery.nar

(***************************************************************************)
(* Further claims about the weekly ledger (checked under Spec)             *)
(***************************************************************************)
\* C21 (as claimed): check_alert reports the critical level whenever the
\* ledger balance is 0 yen or less, and the warning level whenever the
\* balance is positive and at or below 30% of the initial budget.
C21_AlertAtOrBelowThreshold ==
    (data.initial_budget > 0 /\ lastOp = "check_alert") =>
        /\ data.balance <= 0 => ret = ALERT_LEVEL_CRITICAL
        /\ (data.balance > 0 /\ 10 * data.balance <= 3 * data.initial_budget) =>
               ret = ALERT_LEVEL_WARNING

(***************************************************************************)
(* Running style, the votes: scripts/calculate_des.py,                     *)
(* estimate_running_style, on first positions around its thresholds        *)
(***************************************************************************)
\* Bound: the number of past races of a list whose votes are looked at.
MaxVoteRaces == 3

\* First positions around the thresholds of the code (2 and 5) and of the
\* description (3, 6 and 10); 0 stands for a race whose コーナー通過順 is
\* missing, empty or unparsable.
VotePositions == {0, 2, 3, 5, 6, 11}

VoteInputs == SeqsUpTo(VotePositions, MaxVoteRaces)

InitVote ==
    /\ IdleNewScore
    /\ IdleDesMain
    /\ past_races \in VoteInputs
    /\ running_style = "none"
    /\ list_changes = {}
    /\ horse = NoHorse
    /\ des_score = NoDes
    /\ des_score_v1 = NoDes
    /\ pace_horses = <<>>
    /\ predicted_pace = "none"
    /\ report_pace = "none"

NextVote == EstimateRunningStyle

\* One past-race list under classification, every other component at rest.
StartVote ==
    InitVote /\ IdleLedger /\ IdleRace /\ IdleSelect /\ IdleInvest /\ IdleRecon
        /\ IdleBatch /\ IdleStage

SpecVote == StartVote /\ [][NextVote]_vars

\* The label the description gives a first position: <= 3 逃げ, <= 6 先行,
\* <= 10 差し, above 追込 ("oikomi").
DescribedBucket(q) ==
    IF q <= 3 THEN "nige"
    ELSE IF q <= 6 THEN "senkou"
    ELSE IF q <= 10 THEN "sashi"
    ELSE "oikomi"

\* The label the code gives a first position: <= 2 逃げ, <= 5 先行, above 差し.
CodeBucket(q) ==
    IF q <= 2 THEN "nige" ELSE IF q <= 5 THEN "senkou" ELSE "sashi"

\* The races among the five most recent whose first position falls in the
\* code's bucket of the label.
VotesFor(label) ==
    Cardinality({i \in 1..Min2(Len(past_races), 5) :
                    past_races[i] # 0 /\ CodeBucket(past_races[i]) = label})

C23_MostVotesThenPriority ==
    LET front == VotesFor("nige")
        mid == VotesFor("senkou")
        closer == VotesFor("sashi")
    IN  running_style # "none" =>
            /\ running_style = "nige" <=> (front > 0 /\ front >= mid /\ front >= closer)
            /\ running_style = "senkou" <=> (mid > 0 /\ mid > front /\ mid >= closer)
            /\ running_style = "sashi" <=> (closer > 0 /\ closer > front /\ closer > mid)
            /\ running_style = "unknown" <=> (front = 0 /\ mid = 0 /\ closer = 0)

\* One vote for 差し, one for 先行, one race without a corner string: the tie
\* goes to 先行.
C23_Witness ==
    /\ past_races = <<11, 5, 0>>
    /\ running_style = "senkou"

(***************************************************************************)
(* Further claims about the horse scores (checked under SpecDes)           *)
(***************************************************************************)
\* C24 (as claimed): the pedigree/fit sub-score B always lies within 0..30 in
\* both scorer revisions: the penalty for a body-weight swing of 10 kg or
\* more between the two most recent races never drives it below 0.
C24_PedigreeScoreWithinRange ==
    /\ des_score # NoDes => (des_score.B >= 0 /\ des_score.B <= 30)
    /\ des_score_v1 # NoDes => (des_score_v1.B >= 0 /\ des_score_v1.B <= 30)

(***************************************************************************)
(* calculate_new_score.py: the new score of one horse.  The popularity of  *)
(* the day is horse["人気"] (0 stands for None or an absent key); a past   *)
(* race carries its own popularity and the weight string "478(+6)", kept   *)
(* as the flag "has a parenthesised change" and the change itself.         *)
(***************************************************************************)
MaxNewPast == 2

DayPopularities == {0, 1, 4, 12}

NewPastKinds ==
    { [popularity |-> 2, has_change |-> TRUE, change |-> 6],
      [popularity |-> 7, has_change |-> TRUE, change |-> -12],
      [popularity |-> 0, has_change |-> FALSE, change |-> 0] }

NewHorseInputs ==
    [ popularity : DayPopularities,
      past_races : SeqsUpTo(NewPastKinds, MaxNewPast),
      C          : {0, 12, 20},
      B          : {-3, 15, 30},
      leg_type   : {"nige", "sashi", "unknown"} ]

\* None is modelled by has = FALSE.
calculate_weight_change_score(has, weight_change) ==
    IF ~has THEN 50
    ELSE IF weight_change <= -10 THEN 100
    ELSE IF -10 < weight_change /\ weight_change <= -5 THEN 80
    ELSE IF -5 < weight_change /\ weight_change <= 0 THEN 60
    ELSE IF 0 < weight_change /\ weight_change <= 5 THEN 40
    ELSE 20

\* `not last_popularity` holds for None, 0 and the empty string.
calculate_popularity_score(last_popularity) ==
    IF last_popularity = 0 THEN 50
    ELSE IF last_popularity = 1 THEN 100
    ELSE IF last_popularity = 2 THEN 90
    ELSE IF 3 <= last_popularity /\ last_popularity <= 5 THEN 70
    ELSE IF 6 <= last_popularity /\ last_popularity <= 10 THEN 50
    ELSE 30

calculate_experience_score(past_races_count) ==
    IF past_races_count >= 5 THEN 100
    ELSE IF past_races_count >= 3 THEN 80
    ELSE IF past_races_count = 2 THEN 60
    ELSE IF past_races_count = 1 THEN 40
    ELSE 20

calculate_jockey_stable_score(des_jockey_stable) == Min2(100, des_jockey_stable * 5)

calculate_aptitude_score(des_aptitude) == Min2(100, des_aptitude * 4)

calculate_leg_type_score(leg_type) ==
    IF leg_type = "nige" THEN 100
    ELSE IF leg_type = "senkou" THEN 85
    ELSE IF leg_type = "sashi" THEN 70
    ELSE IF leg_type = "oikomi" THEN 50
    ELSE 60

\* The popularity calculate_new_score scores: it is only looked up inside
\* `if past_races:`, the day's popularity first, the last race's otherwise.
last_popularity_of(h) ==
    IF h.past_races = <<>> THEN 0
    ELSE IF h.popularity # 0 THEN h.popularity
    ELSE h.past_races[1].popularity

\* The score components and the total, the total in hundredths of a point.
calculate_new_score(h) ==
    LET last_race == h.past_races[1]
        has == h.past_races # <<>> /\ last_race.has_change
        pop == calculate_popularity_score(last_popularity_of(h))
        wc  == calculate_weight_change_score(has, IF has THEN last_race.change ELSE 0)
        ex  == calculate_experience_score(Len(h.past_races))
        js  == calculate_jockey_stable_score(h.C)
        ap  == calculate_aptitude_score(h.B)
        lg  == calculate_leg_type_score(h.leg_type)
    IN  [ popularity |-> pop, weight |-> wc, experience |-> ex,
          jockey_stable |-> js, aptitude |-> ap, leg |-> lg,
          total |-> pop * 30 + js * 25 + ap * 20 + lg * 10 + wc * 10 + ex * 5 ]

CalculateNewScore ==
    /\ new_score = NoNewScore
    /\ new_score' = calculate_new_score(ns_horse)
    /\ UNCHANGED <<ns_horse, desVars, styleVars, paceVars, desMainVars,
                   coreVars, batchVars, stageVars>>

InitNewScore ==
    /\ ns_horse \in NewHorseInputs
    /\ new_score = NoNewScore
    /\ IdleDesMain
    /\ horse = NoHorse /\ des_score = NoDes /\ des_score_v1 = NoDes
    /\ past_races = <<>> /\ running_style = "none" /\ list_changes = {}
    /\ pace_horses = <<>> /\ predicted_pace = "none" /\ report_pace = "none"

NextNewScore == CalculateNewScore

StartNewScore ==
    InitNewScore /\ IdleLedger /\ IdleRace /\ IdleSelect /\ IdleInvest /\ IdleRecon
        /\ IdleBatch /\ IdleStage

SpecNewScore == StartNewScore /\ [][NextNewScore]_vars

\* C25 (as claimed): whenever the horse carries a popularity of the day, the
\* popularity component of the new score is the score of that popularity,
\* also for a horse that has no past races.
C25_DayPopularityPreferred ==
    (new_score # NoNewScore /\ ns_horse.popularity # 0) =>
        new_score.popularity = calculate_popularity_score(ns_horse.popularity)

(***************************************************************************)
(* The scoring stage: scripts/calculate_des.py, main                       *)
(*                                                                         *)
(* race_data_{ymd}.json is the list of its races, a race being [race_id,   *)
(* distance, track, horses] and a horse [umaban, past_races, jockey, waku, *)
(* trainer, new_score, style, des]: 馬番, the fields the scoring reads,    *)
(* 新スコア in hundredths (0 when absent), 推定脚質 ("absent" when the     *)
(* key is missing) and des_score (NoDes when the key is missing).          *)
(***************************************************************************)
\* Bound: the number of races of the file.
MaxDesRaces == 2

\* A horse of the file before its first scoring, and after a whole earlier
\* run of the pipeline, which left a style, a DES score and a new score.
FileHorses ==
    {[umaban |-> 0, past_races |-> p, jockey |-> "J1", waku |-> 5, trainer |-> "",
      new_score |-> IF scored THEN 5525 ELSE 0,
      style |-> IF scored THEN "sashi" ELSE "absent",
      des |-> IF scored THEN DesRecord(20, 15, 10, 3) ELSE NoDes] :
        p \in {<<>>} \cup {<<k>> : k \in {q \in PastKinds : q.rank = 1}},
        scored \in BOOLEAN}

\* The lists of horses of a race, numbered in the order of the list.
FileHorseLists ==
    {[j \in 1..Len(hs) |-> [hs[j] EXCEPT !.umaban = j]] :
        hs \in {<<>>} \cup {<<a>> : a \in FileHorses}
                \cup {<<a, b>> : a \in FileHorses, b \in FileHorses}}

DesFileInputs ==
    {[i \in 1..Len(rs) |->
         [race_id |-> 100 + i, distance |-> TargetRace.distance,
          track |-> TargetRace.track, horses |-> rs[i]]] :
        rs \in SeqsUpTo(FileHorseLists, MaxDesRaces)}

\* horse.get('past_races', []) as estimate_running_style reads it: the first
\* position of コーナー通過順 of each race, 0 for an empty string.
FirstPositionsOf(past) ==
    [k \in 1..Len(past) |->
        IF past[k].corner = <<>> THEN 0 ELSE FirstPosition(past[k].corner)]

\* The loop of main that keeps in the file only the horses it could score
\* from past races.
cd_main_ScoredOnly(races) ==
    [i \in 1..Len(races) |->
        [races[i] EXCEPT !.horses =
            LET scored == SelectSeq(races[i].horses, LAMBDA h : h.past_races # <<>>)
            IN  [j \in 1..Len(scored) |->
                    [scored[j] EXCEPT
                        !.style = estimate_running_style(FirstPositionsOf(scored[j].past_races)),
                        !.des = cd_calculate_des_score(scored[j], races[i])]]]]

\* The loop of main over race_data["races"] and race.get("horses", []):
\* horse["推定脚質"] and horse["des_score"] are assigned, nothing else.
cd_main(races) ==
    [i \in 1..Len(races) |->
        [races[i] EXCEPT !.horses =
            [j \in 1..Len(races[i].horses) |->
                [races[i].horses[j] EXCEPT
                    !.style = estimate_running_style(
                                  FirstPositionsOf(races[i].horses[j].past_races)),
                    !.des = cd_calculate_des_score(races[i].horses[j], races[i])]]]]

InitDesMain ==
    /\ des_file \in DesFileInputs
    /\ des_bak = NoBackup
    /\ IdleNewScore
    /\ horse = NoHorse /\ des_score = NoDes /\ des_score_v1 = NoDes
    /\ past_races = <<>> /\ running_style = "none" /\ list_changes = {}
    /\ pace_horses = <<>> /\ predicted_pace = "none" /\ report_pace = "none"

\* calculate_des.main: shutil.copy to the backup, json.load, the loop, and
\* json.dump of race_data back to race_data_{ymd}.json.
CalculateDesMain ==
    /\ ~des_bak.exists
    /\ des_bak' = [exists |-> TRUE, races |-> des_file]
    /\ des_file' = cd_main(des_file)
    /\ UNCHANGED <<desVars, styleVars, paceVars, newScoreVars, coreVars, batchVars,
                   stageVars>>

NextDesMain == CalculateDesMain

StartDesMain ==
    InitDesMain /\ IdleLedger /\ IdleRace /\ IdleSelect /\ IdleInvest /\ IdleRecon
        /\ IdleBatch /\ IdleStage

SpecDesMain == StartDesMain /\ [][NextDesMain]_vars

\* A horse with the two fields the scoring stage owns blanked.
OtherFields(h) == [h EXCEPT !.style = "absent", !.des = NoDes]

\* C30: a run of the scoring stage changes only the 推定脚質 and des_score
\* fields of each horse in race_data_{ymd}.json: the races and their order,
\* the horses of each race and their order, and every other field are as
\* they were when the run started.
C30_OnlyStyleAndDesChange ==
    des_bak.exists =>
        /\ Len(des_file) = Len(des_bak.races)
        /\ \A i \in 1..Len(des_file) :
               LET before == des_bak.races[i]
                   after == des_file[i]
               IN  /\ [after EXCEPT !.horses = <<>>] = [before EXCEPT !.horses = <<>>]
                   /\ Len(after.horses) = Len(before.horses)
                   /\ \A j \in 1..Len(after.horses) :
                          OtherFields(after.horses[j]) = OtherFields(before.horses[j])

\* A run over two races: in the second, a horse without past races that an
\* earlier run had scored comes before a horse scored for the first time;
\* both got a new style and DES score, and the first kept its 新スコア.
C30_Witness ==
    /\ des_bak.exists
    /\ Len(des_file) = 2
    /\ Len(des_file[2].horses) = 2
    /\ des_bak.races[2].horses[1].style = "sashi"
    /\ des_bak.races[2].horses[1].past_races = <<>>
    /\ des_file[2].horses[1].style = "unknown"
    /\ des_file[2].horses[1].des # des_bak.races[2].horses[1].des
    /\ des_file[2].horses[1].new_score = 5525
    /\ des_bak.races[2].horses[2].style = "absent"
    /\ des_file[2].horses[2].style \in {"nige", "sashi"}
    /\ des_file[2].horses[2].des # NoDes

====
